---- MODULE Spec2Model ----
(***************************************************************************)
(* Model of the paginated-fetch engine of the Magento 2 MCP server         *)
(* (src/src/utils/formatters.js: callMagentoApi, fetchAllPages) and of     *)
(* the platform it talks to.                                               *)
(*                                                                         *)
(* A query string is modelled as the sequence of its '&'-separated         *)
(* parameters, each a record [key, val]; val is the sequence of the        *)
(* characters after '='.  Numbers are written into a query string by       *)
(* NumberToString and read back by ParseInt, as the template literals of   *)
(* the source and the platform do.                                         *)
(*                                                                         *)
(* The tool handlers (src/src/tools, src/unnamed) build their search       *)
(* criteria as text, a sequence of tokens, which QueryParams splits into   *)
(* parameters; a handler calls callMagentoApi itself or hands its criteria *)
(* to fetchAllPages, and ends by returning a result to the host.           *)
(***************************************************************************)
EXTENDS Integers, Sequences, FiniteSets

\* ------------------------------------------------------------------ bounds
MaxPages == 2          \* collections hold up to MaxPages full pages (+ a rest)
MaxReported == 1000    \* an over-reported total_count
MaxFilterGroups == 8   \* filter-group indices looked for: 0..MaxFilterGroups

\* --------------------------------------------------------------- constants
pageSize == 100        \* formatters.js:101

Calls == {1, 2}
None == "none"
Errors == {"E1", "E2"}
Endpoint == "/orders"

KeyPageSize == "searchCriteria[pageSize]"
KeyCurrentPage == "searchCriteria[currentPage]"
KeyField == "searchCriteria[filter_groups][0][filters][0][field]"
KeyValue == "searchCriteria[filter_groups][0][filters][0][value]"
KeyCond == "searchCriteria[filter_groups][0][filters][0][condition_type]"

\* ----------------------------------------------------------------- strings
DigitChars == <<"0", "1", "2", "3", "4", "5", "6", "7", "8", "9">>

IsDigit(ch) == \E d \in 1..10 : DigitChars[d] = ch

DigitValue(ch) == (CHOOSE d \in 1..10 : DigitChars[d] = ch) - 1

\* `${n}` of a non-negative integer: its decimal digits
RECURSIVE NumberToString(_)
NumberToString(n) ==
    IF n < 10 THEN <<DigitChars[n + 1]>>
    ELSE Append(NumberToString(n \div 10), DigitChars[(n % 10) + 1])

\* the number a run of digits denotes
RECURSIVE ParseInt(_)
ParseInt(s) ==
    IF s = <<>> THEN 0
    ELSE 10 * ParseInt(SubSeq(s, 1, Len(s) - 1)) + DigitValue(s[Len(s)])

\* length of the longest run of digits at the start of s (the match of \d+)
RECURSIVE DigitPrefixLen(_)
DigitPrefixLen(s) ==
    IF s = <<>> \/ ~IsDigit(Head(s)) THEN 0
    ELSE 1 + DigitPrefixLen(Tail(s))

Param(k, v) == [key |-> k, val |-> v]

\* String.prototype.includes(key) on a query string
Includes(criteria, k) == \E i \in 1..Len(criteria) : criteria[i].key = k

\* variant: the pattern is \d instead of \d+, one digit is replaced
ReplaceCurrentPageOneDigit(criteria, page) ==
    LET hits == {i \in 1..Len(criteria) :
                    /\ criteria[i].key = KeyCurrentPage
                    /\ DigitPrefixLen(criteria[i].val) > 0}
    IN  IF hits = {} THEN criteria
        ELSE LET i == CHOOSE j \in hits : \A h \in hits : j <= h
                 v == criteria[i].val
             IN  [criteria EXCEPT ![i].val =
                     NumberToString(page) \o SubSeq(v, 2, Len(v))]

\* criteria.replace(/searchCriteria\[currentPage\]=\d+/, `...=${page}`):
\* the first occurrence of the key that is followed by at least one digit
\* gets its run of digits replaced; nothing else changes.
ReplaceCurrentPage(criteria, page) ==
    LET hits == {i \in 1..Len(criteria) :
                    /\ criteria[i].key = KeyCurrentPage
                    /\ DigitPrefixLen(criteria[i].val) > 0}
    IN  IF hits = {} THEN criteria
        ELSE LET i == CHOOSE j \in hits : \A h \in hits : j <= h
                 v == criteria[i].val
                 n == DigitPrefixLen(v)
             IN  [criteria EXCEPT ![i].val =
                     NumberToString(page) \o SubSeq(v, n + 1, Len(v))]

\* variant: the default page size is added whether or not one is present
BuildPageCriteriaForceSize(baseSearchCriteria, page) ==
    LET withSize == Append(baseSearchCriteria,
                           Param(KeyPageSize, NumberToString(pageSize)))
    IN  IF ~Includes(withSize, KeyCurrentPage)
        THEN Append(withSize, Param(KeyCurrentPage, NumberToString(page)))
        ELSE ReplaceCurrentPage(withSize, page)

\* formatters.js 108-119: the criteria of the request for one page
BuildPageCriteria(baseSearchCriteria, page) ==
    LET withSize ==
            IF ~Includes(baseSearchCriteria, KeyPageSize)
            THEN Append(baseSearchCriteria, Param(KeyPageSize, NumberToString(pageSize)))
            ELSE baseSearchCriteria
    IN  IF ~Includes(withSize, KeyCurrentPage)
        THEN Append(withSize, Param(KeyCurrentPage, NumberToString(page)))
        ELSE ReplaceCurrentPage(withSize, page)

\* ------------------------------------------------------------ the platform
\* value of the first parameter with key k
ParamValue(criteria, k) ==
    criteria[CHOOSE i \in 1..Len(criteria) :
                /\ criteria[i].key = k
                /\ \A j \in 1..(i - 1) : criteria[j].key # k].val

Min(a, b) == IF a <= b THEN a ELSE b

\* the collection the platform holds: count items, identified by position
Collection(count) == [i \in 1..count |-> i]

\* the page of the collection a request asks for
ServerPage(count, criteria) ==
    LET size == ParseInt(ParamValue(criteria, KeyPageSize))
        page == ParseInt(ParamValue(criteria, KeyCurrentPage))
        first == (page - 1) * size + 1
        last == Min(page * size, count)
    IN  IF page < 1 \/ first > last THEN <<>>
        ELSE SubSeq(Collection(count), first, last)

\* A response body as fetchAllPages reads it.  shape is what the items field
\* holds: "list" (an array, items), "absent" (no field, or a falsy value),
\* "string" (a non-empty string, items are its characters) or "object" (a
\* value that is neither an array nor has a length).  has_total tells
\* whether the body has a total_count.
OkResponse(items, total) ==
    [ok |-> TRUE, shape |-> "list", items |-> items, has_total |-> TRUE,
     total_count |-> total, err |-> None]

ErrResponse(e) ==
    [ok |-> FALSE, shape |-> "absent", items |-> <<>>, has_total |-> FALSE,
     total_count |-> 0, err |-> e]

\* a body without total_count
NoTotalResponse(items) ==
    [ok |-> TRUE, shape |-> "list", items |-> items, has_total |-> FALSE,
     total_count |-> 0, err |-> None]

MalformedShapes == {"absent", "string", "object"}

\* a body whose items field is absent or not a list
MalformedResponse(shape, total) ==
    [ok |-> TRUE, shape |-> shape,
     items |-> IF shape = "string" THEN <<"n", "/", "a">> ELSE <<>>,
     has_total |-> TRUE, total_count |-> total, err |-> None]

\* responseData.items is truthy
ItemsTruthy(resp) == resp.shape # "absent"

\* Array.isArray(responseData.items)
ItemsIsArray(resp) == resp.shape = "list"

\* responseData.items.length < n; the length of an object is undefined and
\* undefined < n is false
ItemsLengthBelow(resp, n) ==
    /\ resp.shape \in {"list", "string"}
    /\ Len(resp.items) < n

\* ------------------------------------------------------------ fetchAllPages
\* variant: items already accumulated are not appended again
ConcatItemsDedup(all, resp) ==
    IF ItemsTruthy(resp) /\ ItemsIsArray(resp)
    THEN LET IsNew(x) == \A i \in 1..Len(all) : all[i] # x
         IN  all \o SelectSeq(resp.items, IsNew)
    ELSE all

\* variant: the page is put in front of the accumulator
ConcatItemsPrepend(all, resp) ==
    IF ItemsTruthy(resp) /\ ItemsIsArray(resp) THEN resp.items \o all ELSE all

\* variant: whatever the items field holds is concatenated
ConcatItemsUnchecked(all, resp) ==
    IF ItemsIsArray(resp) THEN all \o resp.items
    ELSE IF ItemsTruthy(resp) THEN Append(all, 0)
    ELSE all

\* formatters.js 124-126
ConcatItems(all, resp) ==
    IF ItemsTruthy(resp) /\ ItemsIsArray(resp) THEN all \o resp.items ELSE all

\* variant: the total is taken again from every page
CaptureTotalEveryPage(page, total, resp) ==
    IF resp.has_total THEN resp.total_count ELSE 0

\* variant: a missing total_count counts as "unknown, keep fetching"
CaptureTotalNoDefault(page, total, resp) ==
    IF page = 1
    THEN (IF resp.has_total THEN resp.total_count ELSE MaxReported)
    ELSE total

\* formatters.js 129-131: responseData.total_count || 0 on the first page
CaptureTotal(page, total, resp) ==
    IF page = 1
    THEN (IF resp.has_total THEN resp.total_count ELSE 0)
    ELSE total

\* variant: strict comparison with the total
StopFetchingStrict(total, all, resp) ==
    \/ total < Len(all)
    \/ ~ItemsTruthy(resp)
    \/ ItemsLengthBelow(resp, pageSize)

\* variant: a safety bound on the number of items fetched
StopFetchingBounded(total, all, resp) ==
    \/ total <= Len(all)
    \/ ~ItemsTruthy(resp)
    \/ ItemsLengthBelow(resp, pageSize)
    \/ Len(all) >= 3 * pageSize

\* variant: no short-page rule
StopFetchingNoShortPage(total, all, resp) ==
    \/ total <= Len(all)
    \/ ~ItemsTruthy(resp)

\* formatters.js 134
StopFetching(total, all, resp) ==
    \/ total <= Len(all)
    \/ ~ItemsTruthy(resp)
    \/ ItemsLengthBelow(resp, pageSize)

\* ------------------------------------------------- query strings as text
\* The text of a query string is a sequence of tokens: a key name or a
\* literal word is one token, every character of a caller-supplied value is
\* a token of its own, and so are the separators '&' and '='.

\* characters encodeURIComponent escapes, among those the values use
Escape(ch) ==
    CASE ch = "&" -> <<"%", "2", "6">>
      [] ch = "%" -> <<"%", "2", "5">>
      [] ch = " " -> <<"%", "2", "0">>
      [] ch = ":" -> <<"%", "3", "A">>
      [] ch = "=" -> <<"%", "3", "D">>
      [] OTHER -> <<ch>>

\* encodeURIComponent(s)
RECURSIVE encodeURIComponent(_)
encodeURIComponent(s) ==
    IF s = <<>> THEN <<>>
    ELSE Escape(Head(s)) \o encodeURIComponent(Tail(s))

\* the character a two-digit escape stands for ("" when it is none of ours)
Unescape(h1, h2) ==
    CASE h1 = "2" /\ h2 = "6" -> "&"
      [] h1 = "2" /\ h2 = "5" -> "%"
      [] h1 = "2" /\ h2 = "0" -> " "
      [] h1 = "3" /\ h2 = "A" -> ":"
      [] h1 = "3" /\ h2 = "D" -> "="
      [] OTHER -> ""

\* the platform's decoding of a value: an escape becomes its character, a
\* '%' that starts no escape is kept
RECURSIVE DecodeValue(_)
DecodeValue(s) ==
    IF s = <<>> THEN <<>>
    ELSE IF Head(s) = "%" /\ Len(s) >= 3 /\ Unescape(s[2], s[3]) # ""
         THEN <<Unescape(s[2], s[3])>> \o DecodeValue(SubSeq(s, 4, Len(s)))
         ELSE <<Head(s)>> \o DecodeValue(Tail(s))

\* the string a sequence of tokens spells
RECURSIVE Concat(_)
Concat(s) == IF s = <<>> THEN "" ELSE Head(s) \o Concat(Tail(s))

\* `key=${value}`
Pair(k, v) == <<k, "=">> \o v

\* position of the first token t in s, 0 when there is none
RECURSIVE IndexOf(_, _)
IndexOf(s, t) ==
    IF s = <<>> THEN 0
    ELSE IF Head(s) = t THEN 1
    ELSE LET i == IndexOf(Tail(s), t) IN IF i = 0 THEN 0 ELSE i + 1

\* the pieces of a text between its '&' separators
RECURSIVE SplitAmp(_)
SplitAmp(text) ==
    LET i == IndexOf(text, "&") IN
    IF i = 0 THEN <<text>>
    ELSE <<SubSeq(text, 1, i - 1)>> \o SplitAmp(SubSeq(text, i + 1, Len(text)))

\* one piece read as key=value: the key is what precedes the first '='
PieceParam(piece) ==
    LET i == IndexOf(piece, "=") IN
    IF i = 0 THEN Param(Concat(piece), <<>>)
    ELSE Param(Concat(SubSeq(piece, 1, i - 1)), SubSeq(piece, i + 1, Len(piece)))

\* the parameters of a query string, as the platform splits them
QueryParams(text) ==
    LET pieces == SplitAmp(text) IN
    [i \in 1..Len(pieces) |-> PieceParam(pieces[i])]

\* the parameters of a query string with their values decoded
DecodedParams(text) ==
    LET ps == QueryParams(text) IN
    [i \in 1..Len(ps) |-> Param(ps[i].key, DecodeValue(ps[i].val))]

\* ------------------------------------------------------ criteria builders
KeySortField == "searchCriteria[sortOrders][0][field]"
KeySortDirection == "searchCriteria[sortOrders][0][direction]"

\* `searchCriteria[filter_groups][${g}][filters][0][${part}]`
FilterGroupKey(g, part) ==
    "searchCriteria[filter_groups][" \o Concat(NumberToString(g))
        \o "][filters][0][" \o part \o "]"

\* the three parameters of one filter, alone in filter group g
Filter(g, field, value, condition_type) ==
    Pair(FilterGroupKey(g, "field"), <<field>>) \o <<"&">>
        \o Pair(FilterGroupKey(g, "value"), value) \o <<"&">>
        \o Pair(FilterGroupKey(g, "condition_type"), <<condition_type>>)

\* variant: filterIndex is not advanced after a filter
AppendFilterSameIndex(acc, supplied, field, value, condition_type) ==
    IF supplied
    THEN [searchCriteria |-> acc.searchCriteria \o <<"&">>
                                \o Filter(acc.filterIndex, field, value, condition_type),
          filterIndex |-> acc.filterIndex]
    ELSE acc

\* if (supplied) { searchCriteria += `&...`; filterIndex++; }
AppendFilter(acc, supplied, field, value, condition_type) ==
    IF supplied
    THEN [searchCriteria |-> acc.searchCriteria \o <<"&">>
                                \o Filter(acc.filterIndex, field, value, condition_type),
          filterIndex |-> acc.filterIndex + 1]
    ELSE acc

\* an optional number is <<>> when undefined and <<n>> when supplied
Defined(opt) == opt # <<>>
NumberText(opt) == IF Defined(opt) THEN NumberToString(opt[1]) ELSE <<>>

\* a string is truthy when it is not empty
Truthy(s) == s # <<>>

\* `%25${encodeURIComponent(x)}%25`
LikeValue(x) == <<"%", "2", "5">> \o encodeURIComponent(x) \o <<"%", "2", "5">>

\* get_order_by_increment_id (orders.js 39-41)
get_order_by_increment_id(a) ==
    Filter(0, "increment_id", encodeURIComponent(a.increment_id), "eq")

\* search_orders (orders.js 83-133); the last filter leaves filterIndex
\* alone, which nothing reads afterwards
search_orders(a) ==
    LET s0 == [searchCriteria |->
                   Pair(KeyPageSize, NumberToString(a.page_size)) \o <<"&">>
                     \o Pair(KeyCurrentPage, NumberToString(a.current_page)) \o <<"&">>
                     \o Pair(KeySortField, a.sort_field) \o <<"&">>
                     \o Pair(KeySortDirection, a.sort_direction),
               filterIndex |-> 0]
        s1 == AppendFilter(s0, Truthy(a.status), "status",
                           encodeURIComponent(a.status), "eq")
        s2 == AppendFilter(s1, Truthy(a.customer_email), "customer_email",
                           encodeURIComponent(a.customer_email), "eq")
        s3 == AppendFilter(s2, Defined(a.customer_id), "customer_id",
                           NumberText(a.customer_id), "eq")
        s4 == AppendFilter(s3, Truthy(a.date_from), "created_at",
                           encodeURIComponent(a.date_from \o <<" ", "00", ":", "00", ":", "00">>),
                           "gteq")
        s5 == AppendFilter(s4, Truthy(a.date_to), "created_at",
                           encodeURIComponent(a.date_to \o <<" ", "23", ":", "59", ":", "59">>),
                           "lteq")
        s6 == AppendFilter(s5, Defined(a.grand_total_min), "grand_total",
                           NumberText(a.grand_total_min), "gteq")
        s7 == AppendFilter(s6, Defined(a.grand_total_max), "grand_total",
                           NumberText(a.grand_total_max), "lteq")
    IN s7.searchCriteria

\* search_customers (customers.js 48-98)
search_customers(a) ==
    LET s0 == [searchCriteria |->
                   Pair(KeyPageSize, NumberToString(a.page_size)) \o <<"&">>
                     \o Pair(KeyCurrentPage, NumberToString(a.current_page)),
               filterIndex |-> 0]
        s1 == AppendFilter(s0, Truthy(a.email), "email", LikeValue(a.email), "like")
        s2 == AppendFilter(s1, Truthy(a.firstname), "firstname",
                           LikeValue(a.firstname), "like")
        s3 == AppendFilter(s2, Truthy(a.lastname), "lastname",
                           LikeValue(a.lastname), "like")
        s4 == AppendFilter(s3, Defined(a.group_id), "group_id",
                           NumberText(a.group_id), "eq")
        s5 == AppendFilter(s4, Defined(a.website_id), "website_id",
                           NumberText(a.website_id), "eq")
        s6 == AppendFilter(s5, Truthy(a.created_at_from), "created_at",
                           a.created_at_from, "gteq")
        s7 == AppendFilter(s6, Truthy(a.created_at_to), "created_at",
                           a.created_at_to, "lteq")
    IN s7.searchCriteria

\* advanced_product_search (products.js 100-109)
advanced_product_search(a) ==
    Pair(FilterGroupKey(0, "field"), encodeURIComponent(a.field)) \o <<"&">>
        \o Pair(FilterGroupKey(0, "value"), encodeURIComponent(a.value)) \o <<"&">>
        \o Pair(FilterGroupKey(0, "condition_type"),
                encodeURIComponent(a.condition_type)) \o <<"&">>
        \o Pair(KeyPageSize, NumberToString(a.page_size)) \o <<"&">>
        \o Pair(KeyCurrentPage, NumberToString(a.current_page)) \o <<"&">>
        \o Pair(KeySortField, encodeURIComponent(a.sort_field)) \o <<"&">>
        \o Pair(KeySortDirection, encodeURIComponent(a.sort_direction))

\* search_coupons (part_003 68-83): is_active is declared by the schema and
\* destructured, and no filter is written for it
search_coupons(a) ==
    LET s0 == [searchCriteria |->
                   Pair(KeyPageSize, NumberToString(a.page_size)) \o <<"&">>
                     \o Pair(KeyCurrentPage, NumberToString(a.current_page)),
               filterIndex |-> 0]
        s1 == AppendFilter(s0, Truthy(a.code), "code", LikeValue(a.code), "like")
        s2 == AppendFilter(s1, Defined(a.rule_id), "rule_id",
                           NumberText(a.rule_id), "eq")
    IN s2.searchCriteria

\* search_url_rewrites (url-rewrites.js 21-51)
search_url_rewrites(a) ==
    LET s0 == [searchCriteria |->
                   Pair(KeyPageSize, NumberToString(a.page_size)) \o <<"&">>
                     \o Pair(KeyCurrentPage, NumberToString(a.current_page)),
               filterIndex |-> 0]
        s1 == AppendFilter(s0, Truthy(a.request_path), "request_path",
                           LikeValue(a.request_path), "like")
        s2 == AppendFilter(s1, Truthy(a.target_path), "target_path",
                           LikeValue(a.target_path), "like")
        s3 == AppendFilter(s2, Truthy(a.entity_type), "entity_type",
                           encodeURIComponent(a.entity_type), "eq")
        s4 == AppendFilter(s3, Defined(a.store_id), "store_id",
                           NumberText(a.store_id), "eq")
    IN s4.searchCriteria

\* get_tax_classes (part_004 66-72)
get_tax_classes(a) ==
    Pair(KeyPageSize, NumberToString(100))
        \o (IF Truthy(a.tax_class_type)
            THEN <<"&">> \o Filter(0, "class_type",
                                   encodeURIComponent(a.tax_class_type), "eq")
            ELSE <<>>)

\* a Date: its day and its time of day
StartOfDay(day) == [day |-> day, h |-> "00", m |-> "00", s |-> "00"]
EndOfDay(day) == [day |-> day, h |-> "23", m |-> "59", s |-> "59"]

Today == "2024-06-15"

\* parseDateExpression (part_001 27-126): the range of an expression, or
\* ok = FALSE when it throws
parseDateExpression(dateExpression) ==
    CASE dateExpression = "today" ->
            [ok |-> TRUE, startDate |-> StartOfDay(Today), endDate |-> EndOfDay(Today)]
      [] dateExpression = "2023-01-01" ->
            [ok |-> TRUE, startDate |-> StartOfDay("2023-01-01"),
             endDate |-> EndOfDay("2023-01-01")]
      [] dateExpression = "2023-01-01 to 2023-01-31" ->
            [ok |-> TRUE, startDate |-> StartOfDay("2023-01-01"),
             endDate |-> EndOfDay("2023-01-31")]
      [] OTHER ->
            [ok |-> FALSE, startDate |-> StartOfDay(Today), endDate |-> EndOfDay(Today)]

\* format(date, "yyyy-MM-dd HH:mm:ss") (part_001 134-136)
formatDateForMagento(date) == <<date.day, " ", date.h, ":", date.m, ":", date.s>>

\* variant: both bounds are filters 0 and 1 of group 0
buildDateRangeFilterOneGroup(field, startDate, endDate) ==
    Pair("searchCriteria[filter_groups][0][filters][0][field]", <<field>>) \o <<"&">>
        \o Pair("searchCriteria[filter_groups][0][filters][0][value]",
                encodeURIComponent(formatDateForMagento(startDate))) \o <<"&">>
        \o Pair("searchCriteria[filter_groups][0][filters][0][condition_type]",
                <<"gteq">>) \o <<"&">>
        \o Pair("searchCriteria[filter_groups][0][filters][1][field]", <<field>>)
        \o <<"&">>
        \o Pair("searchCriteria[filter_groups][0][filters][1][value]",
                encodeURIComponent(formatDateForMagento(endDate))) \o <<"&">>
        \o Pair("searchCriteria[filter_groups][0][filters][1][condition_type]",
                <<"lteq">>)

\* buildDateRangeFilter (part_001 145-157)
buildDateRangeFilter(field, startDate, endDate) ==
    Filter(0, field, encodeURIComponent(formatDateForMagento(startDate)), "gteq")
        \o <<"&">>
        \o Filter(1, field, encodeURIComponent(formatDateForMagento(endDate)), "lteq")

\* get_revenue (analytics.js 24-34): the criteria handed to fetchAllPages
get_revenue(a) ==
    LET dateRange == parseDateExpression(a.date_range) IN
    buildDateRangeFilter("created_at", dateRange.startDate, dateRange.endDate)
        \o (IF Truthy(a.status)
            THEN <<"&">> \o Filter(2, "status", encodeURIComponent(a.status), "eq")
            ELSE <<>>)

\* get_order_count (analytics.js 113-126): the criteria of its one request
get_order_count(a) ==
    LET dateRange == parseDateExpression(a.date_range) IN
    buildDateRangeFilter("created_at", dateRange.startDate, dateRange.endDate)
        \o (IF Truthy(a.status)
            THEN <<"&">> \o Filter(2, "status", encodeURIComponent(a.status), "eq")
            ELSE <<>>)
        \o <<"&">> \o Pair(KeyPageSize, <<"1">>)
        \o <<"&">> \o Pair(KeyCurrentPage, <<"1">>)

\* get_product_sales (analytics.js 180-190): the criteria handed to
\* fetchAllPages; country is applied to the fetched orders afterwards
get_product_sales(a) ==
    LET dateRange == parseDateExpression(a.date_range) IN
    buildDateRangeFilter("created_at", dateRange.startDate, dateRange.endDate)
        \o (IF Truthy(a.status)
            THEN <<"&">> \o Filter(2, "status", encodeURIComponent(a.status), "eq")
            ELSE <<>>)

\* get_revenue_by_country (analytics.js 318-331): the criteria handed to
\* fetchAllPages; country is applied to the fetched orders afterwards
get_revenue_by_country(a) ==
    LET dateRange == parseDateExpression(a.date_range) IN
    buildDateRangeFilter("created_at", dateRange.startDate, dateRange.endDate)
        \o (IF Truthy(a.status)
            THEN <<"&">> \o Filter(2, "status", encodeURIComponent(a.status), "eq")
            ELSE <<>>)

\* get_customer_ordered_products_by_email (analytics.js 421-423): the criteria
\* of the customer search
customerSearchCriteria(a) == Filter(0, "email", encodeURIComponent(a.email), "eq")

\* get_customer_ordered_products_by_email (analytics.js 441-443): the criteria
\* handed to fetchAllPages
orderSearchCriteria(a) ==
    Filter(0, "customer_email", encodeURIComponent(a.email), "eq")

\* the SKUs of the items of an order of the collection, in the order of
\* order.items
OrderItems(order) ==
    CASE order % 3 = 1 -> <<"A">>
      [] order % 3 = 2 -> <<"B", "A">>
      [] OTHER -> <<"C">>

\* the SKUs of the catalogue
Skus == {"A", "B", "C"}

\* productSkus.add(item.sku) for every item of one order (analytics.js
\* 467-471): a Set keeps each SKU once, in the order it was first added
RECURSIVE AddSkus(_, _)
AddSkus(productSkus, items) ==
    IF items = <<>> THEN productSkus
    ELSE AddSkus(IF \E i \in 1..Len(productSkus) : productSkus[i] = Head(items)
                 THEN productSkus
                 ELSE Append(productSkus, Head(items)),
                 Tail(items))

\* allCustomerOrders.forEach from order i on (analytics.js 465-473); once
\* the Set holds every SKU of the catalogue no later order changes it
RECURSIVE CollectSkus(_, _, _)
CollectSkus(productSkus, orders, i) ==
    IF i > Len(orders) \/ Len(productSkus) = Cardinality(Skus) THEN productSkus
    ELSE CollectSkus(AddSkus(productSkus, OrderItems(orders[i])), orders, i + 1)

\* Array.from(productSkus) (analytics.js 476)
ProductSkus(orders) == CollectSkus(<<>>, orders, 1)

\* the product the platform holds under a SKU
Product(sku) == [sku |-> sku, name |-> <<"name of ", sku>>, cost |-> 5]

\* formatProduct (formatters.js 6-30): the fields shown of a product
formatProduct(product) == [sku |-> product.sku, name |-> product.name]

\* productMap[product.sku] = product for each of productDetails in turn
\* (analytics.js 485-490): a later entry replaces an earlier one of its SKU
ProductMap(productDetails) ==
    LET skus == {productDetails[i].sku : i \in 1..Len(productDetails)}
        last(sku) == CHOOSE i \in 1..Len(productDetails) :
                         /\ productDetails[i].sku = sku
                         /\ \A j \in 1..Len(productDetails) :
                                productDetails[j].sku = sku => j <= i
    IN  [sku \in skus |-> productDetails[last(sku)]]

\* the result of get_customer_ordered_products_by_email (analytics.js 493-516)
OrderedProducts(orders, productMap) ==
    [isError |-> FALSE,
     text |-> <<"orders">>,
     orders |->
        [i \in 1..Len(orders) |->
            [order_id |-> orders[i],
             items |->
                [j \in 1..Len(OrderItems(orders[i])) |->
                    [sku |-> OrderItems(orders[i])[j],
                     product_details |-> productMap[OrderItems(orders[i])[j]]]]]]]

\* customerData.customer (customers.js 216-228): what update_customer PUTs,
\* from its arguments and the customer its GET returned
update_customer(a, existingCustomer) ==
    [f \in {"id", "email", "firstname", "lastname", "website_id"}
            \cup (IF Defined(a.group_id) THEN {"group_id"} ELSE {}) |->
        CASE f = "id" -> a.customer_id
          [] f = "email" ->
                IF Truthy(a.email) THEN a.email ELSE existingCustomer.email
          [] f = "firstname" ->
                IF Truthy(a.firstname) THEN a.firstname ELSE existingCustomer.firstname
          [] f = "lastname" ->
                IF Truthy(a.lastname) THEN a.lastname ELSE existingCustomer.lastname
          [] f = "website_id" -> existingCustomer.website_id
          [] f = "group_id" -> a.group_id[1]]

\* blockData.block (analytics.js 681-689): what update_cms_block PUTs
update_cms_block(a, existingBlock) ==
    [id |-> a.block_id,
     identifier |-> IF Truthy(a.identifier) THEN a.identifier
                    ELSE existingBlock.identifier,
     title |-> IF Truthy(a.title) THEN a.title ELSE existingBlock.title,
     content |-> IF Defined(a.content) THEN a.content ELSE existingBlock.content,
     active |-> IF Defined(a.is_active) THEN a.is_active[1] ELSE existingBlock.active]

\* pageData.page (analytics.js 864-872): what update_cms_page PUTs
update_cms_page(a, existingPage) ==
    [id |-> a.page_id,
     identifier |-> IF Truthy(a.identifier) THEN a.identifier
                    ELSE existingPage.identifier,
     title |-> IF Truthy(a.title) THEN a.title ELSE existingPage.title,
     content |-> IF Defined(a.content) THEN a.content ELSE existingPage.content,
     active |-> IF Defined(a.is_active) THEN a.is_active[1] ELSE existingPage.active]

\* the platform saves the entity of a PUT: the fields of the body replace the
\* stored ones, the others stay
SaveEntity(stored, body) ==
    [f \in DOMAIN stored |-> IF f \in DOMAIN body THEN body[f] ELSE stored[f]]

\* ------------------------------------------------------------------- state
VARIABLES
    serverCount,    \* number of items of the collection on the platform
    serverTotal,    \* the total_count the platform reports
    pc,             \* per call: "idle", "await", "done", "failed"
    base,           \* per call: baseSearchCriteria
    currentPage,    \* per call
    allItems,       \* per call
    totalCount,     \* per call
    result,         \* per call: resolved value (None until resolved)
    error,          \* per call: rejection reason (None unless rejected)
    requests,       \* requests sent and not yet answered
    responses,      \* responses sent and not yet delivered
    reqLog,         \* per call: criteria of every request issued, in order
    outcomes,       \* per call: kind of every response received, in order
    tool,           \* per call: the tool the host invoked (None before)
    args,           \* per call: the arguments of the invocation
    hpc,            \* per call: position of the tool handler: "idle",
                    \* "calling", "fetching", "returned"
    sent,           \* per call: the handler's own callMagentoApi calls, in order
    answers,        \* per call: how each of those calls ended, in order
    toolResult,     \* per call: the result returned to the host
    lookups,        \* per call: how the lookup of each ordered SKU stands:
                    \* "pending", "ok" or its error (no SKU before they start)
    arrival,        \* per call: the SKUs in the order their lookups settled
    entity,         \* the customer, CMS block and CMS page stored on the platform
    existing        \* per call: the entity its GET returned (None before)

vars == <<serverCount, serverTotal, pc, base, currentPage, allItems,
          totalCount, result, error, requests, responses, reqLog, outcomes,
          tool, args, hpc, sent, answers, toolResult,
          lookups, arrival, entity, existing>>

server == <<serverCount, serverTotal, entity>>

\* what a handler keeps besides its calls
locals == <<lookups, arrival, existing>>

handler == <<tool, args, hpc, sent, answers, toolResult, locals>>

fetch == <<pc, base, currentPage, allItems, totalCount, result, error,
           requests, responses, reqLog, outcomes>>

Request(c, criteria) == [call |-> c, endpoint |-> Endpoint, criteria |-> criteria]

\* sizes around the page boundaries
CollectionSizes ==
    {n \in {k * pageSize + d : k \in 0..MaxPages, d \in {-1, 0, 1, 7, 50}} : n >= 0}

FilterParams ==
    << Param(KeyField, <<"s", "k", "u">>),
       Param(KeyValue, <<"%", "2", "5", "a">>),
       Param(KeyCond, <<"l", "i", "k", "e">>) >>

BasePageSizes == {50, 100, 200}
BaseCurrentPages == {0, 1, 3, 12}

OptParam(k, vals) == {<<>>} \cup {<<Param(k, NumberToString(v))>> : v \in vals}

\* base criteria a caller may pass: filters, with or without pagination keys
BaseCriteria ==
    UNION { { FilterParams \o s \o p, s \o p \o FilterParams, p \o FilterParams \o s } :
              s \in OptParam(KeyPageSize, BasePageSizes),
              p \in OptParam(KeyCurrentPage, BaseCurrentPages) }

\* what toolResult holds while the handler has not returned
NoResult == [isError |-> FALSE, text |-> <<>>]

\* the customer, the CMS block and the CMS page the update tools work on, as
\* the platform stores them before any update
StoredEntities ==
    [customer |-> [email |-> <<"e0">>, firstname |-> <<"f0">>,
                   lastname |-> <<"l0">>, website_id |-> 1, group_id |-> 1],
     block |-> [identifier |-> <<"i0">>, title |-> <<"t0">>,
                content |-> <<"c0">>, active |-> TRUE],
     page |-> [identifier |-> <<"i0">>, title |-> <<"t0">>,
               content |-> <<"c0">>, active |-> TRUE]]

Init ==
    /\ serverCount \in CollectionSizes
    /\ serverTotal \in {serverCount, 0, MaxReported}
    /\ pc = [c \in Calls |-> "idle"]
    /\ base = [c \in Calls |-> <<>>]
    /\ currentPage = [c \in Calls |-> 0]
    /\ allItems = [c \in Calls |-> <<>>]
    /\ totalCount = [c \in Calls |-> 0]
    /\ result = [c \in Calls |-> None]
    /\ error = [c \in Calls |-> None]
    /\ requests = {}
    /\ responses = {}
    /\ reqLog = [c \in Calls |-> <<>>]
    /\ outcomes = [c \in Calls |-> <<>>]
    /\ tool = [c \in Calls |-> None]
    /\ args = [c \in Calls |-> <<>>]
    /\ hpc = [c \in Calls |-> "idle"]
    /\ sent = [c \in Calls |-> <<>>]
    /\ answers = [c \in Calls |-> <<>>]
    /\ toolResult = [c \in Calls |-> NoResult]
    /\ lookups = [c \in Calls |-> <<>>]
    /\ arrival = [c \in Calls |-> <<>>]
    /\ entity = StoredEntities
    /\ existing = [c \in Calls |-> None]

\* requests one call may issue; no run of the model needs that many
MaxRequests == MaxPages + 3

\* pages on which the platform may answer with a malformed body
MalformedPages == 1..(MaxPages + 1)

\* a full page of a collection that never ends: the items of the page asked for
EndlessPage(criteria) ==
    LET page == ParseInt(ParamValue(criteria, KeyCurrentPage))
    IN  [i \in 1..pageSize |-> (page - 1) * pageSize + i]

\* answers of a platform whose collection or count changes during a fetch
ShiftingKinds == {"full", "total0", "totalmax", "stale"}

\* the body the platform sends for a request, by kind of answer
PlatformResponse(kind, criteria) ==
    IF kind = "ok" THEN OkResponse(ServerPage(serverCount, criteria), serverTotal)
    ELSE IF kind = "nototal" THEN NoTotalResponse(ServerPage(serverCount, criteria))
    ELSE IF kind \in MalformedShapes THEN MalformedResponse(kind, serverTotal)
    ELSE IF kind = "full" THEN OkResponse(EndlessPage(criteria), serverTotal)
    ELSE IF kind = "total0" THEN OkResponse(ServerPage(serverCount, criteria), 0)
    ELSE IF kind = "totalmax"
         THEN OkResponse(ServerPage(serverCount, criteria), MaxReported)
    ELSE IF kind = "stale"
         THEN OkResponse(ServerPage(serverCount, ReplaceCurrentPage(criteria, 1)),
                         serverTotal)
    ELSE ErrResponse(kind)

\* formatters.js 122 up to the await: callMagentoApi sends one GET
SendRequest(c, criteria) ==
    /\ Len(reqLog[c]) < MaxRequests
    /\ requests' = requests \cup {Request(c, criteria)}
    /\ reqLog' = [reqLog EXCEPT ![c] = Append(@, criteria)]

\* variant: the page counter is one module-level variable that a new fetch
\* does not reset
InvokeStalePage(c, criteria) ==
    /\ pc[c] = "idle"
    /\ pc' = [pc EXCEPT ![c] = "await"]
    /\ base' = [base EXCEPT ![c] = criteria]
    /\ allItems' = [allItems EXCEPT ![c] = <<>>]
    /\ totalCount' = [totalCount EXCEPT ![c] = 0]
    /\ LET pages == {currentPage[d] : d \in Calls} \cup {1}
           page == CHOOSE p \in pages : \A q \in pages : q <= p
       IN  /\ currentPage' = [currentPage EXCEPT ![c] = page]
           /\ SendRequest(c, BuildPageCriteria(criteria, page))
    /\ UNCHANGED <<server, handler, result, error, responses, outcomes>>

\* variant: the second page is requested without waiting for the first
InvokePrefetch(c, criteria) ==
    /\ pc[c] = "idle"
    /\ pc' = [pc EXCEPT ![c] = "await"]
    /\ base' = [base EXCEPT ![c] = criteria]
    /\ currentPage' = [currentPage EXCEPT ![c] = 1]
    /\ allItems' = [allItems EXCEPT ![c] = <<>>]
    /\ totalCount' = [totalCount EXCEPT ![c] = 0]
    /\ requests' = requests \cup {Request(c, BuildPageCriteria(criteria, 1)),
                                  Request(c, BuildPageCriteria(criteria, 2))}
    /\ reqLog' = [reqLog EXCEPT ![c] = @ \o <<BuildPageCriteria(criteria, 1),
                                               BuildPageCriteria(criteria, 2)>>]
    /\ UNCHANGED <<server, handler, result, error, responses, outcomes>>

\* fetchAllPages(endpoint, baseSearchCriteria) up to its first await
\* (formatters.js 100-122)
Invoke(c, criteria) ==
    /\ pc[c] = "idle"
    /\ pc' = [pc EXCEPT ![c] = "await"]
    /\ base' = [base EXCEPT ![c] = criteria]
    /\ currentPage' = [currentPage EXCEPT ![c] = 1]
    /\ allItems' = [allItems EXCEPT ![c] = <<>>]
    /\ totalCount' = [totalCount EXCEPT ![c] = 0]
    /\ SendRequest(c, BuildPageCriteria(criteria, 1))
    /\ UNCHANGED <<server, handler, result, error, responses, outcomes>>

\* the platform answers a request with the page asked for
ServerRespond(c) ==
    \E r \in requests :
        /\ r.call = c
        /\ requests' = requests \ {r}
        /\ responses' = responses \cup
              {[call |-> c, kind |-> "ok",
                resp |-> PlatformResponse("ok", r.criteria)]}
        /\ UNCHANGED <<server, handler, pc, base, currentPage, allItems, totalCount,
                       result, error, reqLog, outcomes>>

\* the platform answers with the page asked for but without total_count
ServerNoTotal(c) ==
    \E r \in requests :
        /\ r.call = c
        /\ requests' = requests \ {r}
        /\ responses' = responses \cup
              {[call |-> c, kind |-> "nototal",
                resp |-> PlatformResponse("nototal", r.criteria)]}
        /\ UNCHANGED <<server, handler, pc, base, currentPage, allItems, totalCount,
                       result, error, reqLog, outcomes>>

\* the platform answers with a body whose items are absent or not a list
ServerMalformed(c) ==
    \E r \in requests, shape \in MalformedShapes :
        /\ r.call = c
        /\ ParseInt(ParamValue(r.criteria, KeyCurrentPage)) \in MalformedPages
        /\ requests' = requests \ {r}
        /\ responses' = responses \cup
              {[call |-> c, kind |-> shape,
                resp |-> PlatformResponse(shape, r.criteria)]}
        /\ UNCHANGED <<server, handler, pc, base, currentPage, allItems, totalCount,
                       result, error, reqLog, outcomes>>

\* the request fails (transport error or non-success status)
ServerFail(c) ==
    \E r \in requests, e \in Errors :
        /\ r.call = c
        /\ requests' = requests \ {r}
        /\ responses' = responses \cup
              {[call |-> c, kind |-> e, resp |-> PlatformResponse(e, r.criteria)]}
        /\ UNCHANGED <<server, handler, pc, base, currentPage, allItems, totalCount,
                       result, error, reqLog, outcomes>>

\* variant: the accumulator is one module-level list shared by all calls
ResumeShared(c) ==
    \E m \in responses :
        /\ m.call = c
        /\ m.resp.ok
        /\ pc[c] = "await"
        /\ responses' = responses \ {m}
        /\ outcomes' = [outcomes EXCEPT ![c] = Append(@, m.kind)]
        /\ LET all == ConcatItems(allItems[c], m.resp)
               total == CaptureTotal(currentPage[c], totalCount[c], m.resp)
           IN  /\ allItems' = [d \in Calls |-> all]
               /\ totalCount' = [totalCount EXCEPT ![c] = total]
               /\ IF StopFetching(total, all, m.resp)
                  THEN /\ pc' = [pc EXCEPT ![c] = "done"]
                       /\ result' = [result EXCEPT ![c] = all]
                       /\ UNCHANGED <<currentPage, requests, reqLog>>
                  ELSE /\ currentPage' = [currentPage EXCEPT ![c] = @ + 1]
                       /\ SendRequest(c, BuildPageCriteria(base[c], currentPage[c] + 1))
                       /\ UNCHANGED <<pc, result>>
        /\ UNCHANGED <<server, handler, base, error>>

\* the await of formatters.js 122 resolves: 124-140, then either the return
\* of 142 or the next iteration up to its await (108-122)
Resume(c) ==
    \E m \in responses :
        /\ m.call = c
        /\ m.resp.ok
        /\ pc[c] = "await"
        /\ responses' = responses \ {m}
        /\ outcomes' = [outcomes EXCEPT ![c] = Append(@, m.kind)]
        /\ LET all == ConcatItems(allItems[c], m.resp)
               total == CaptureTotal(currentPage[c], totalCount[c], m.resp)
           IN  /\ allItems' = [allItems EXCEPT ![c] = all]
               /\ totalCount' = [totalCount EXCEPT ![c] = total]
               /\ IF StopFetching(total, all, m.resp)
                  THEN /\ pc' = [pc EXCEPT ![c] = "done"]
                       /\ result' = [result EXCEPT ![c] = all]
                       /\ UNCHANGED <<currentPage, requests, reqLog>>
                  ELSE /\ currentPage' = [currentPage EXCEPT ![c] = @ + 1]
                       /\ SendRequest(c, BuildPageCriteria(base[c], currentPage[c] + 1))
                       /\ UNCHANGED <<pc, result>>
        /\ UNCHANGED <<server, handler, base, error>>

\* variant: the error is swallowed and the pages fetched so far are returned
ThrowPartial(c) ==
    \E m \in responses :
        /\ m.call = c
        /\ ~m.resp.ok
        /\ pc[c] = "await"
        /\ responses' = responses \ {m}
        /\ outcomes' = [outcomes EXCEPT ![c] = Append(@, m.resp.err)]
        /\ pc' = [pc EXCEPT ![c] = "done"]
        /\ result' = [result EXCEPT ![c] = allItems[c]]
        /\ UNCHANGED <<server, handler, base, currentPage, allItems, totalCount, error,
                       requests, reqLog>>

\* variant: a failed page is requested again
ThrowRetry(c) ==
    \E m \in responses :
        /\ m.call = c
        /\ ~m.resp.ok
        /\ pc[c] = "await"
        /\ Len(reqLog[c]) < 6
        /\ responses' = responses \ {m}
        /\ outcomes' = [outcomes EXCEPT ![c] = Append(@, m.resp.err)]
        /\ SendRequest(c, BuildPageCriteria(base[c], currentPage[c]))
        /\ UNCHANGED <<server, handler, pc, base, currentPage, allItems, totalCount,
                       result, error>>

\* the await of formatters.js 122 rejects: callMagentoApi rethrows the error
\* (88-91) and fetchAllPages has no handler, so it rejects with it
Throw(c) ==
    \E m \in responses :
        /\ m.call = c
        /\ ~m.resp.ok
        /\ pc[c] = "await"
        /\ responses' = responses \ {m}
        /\ outcomes' = [outcomes EXCEPT ![c] = Append(@, m.resp.err)]
        /\ pc' = [pc EXCEPT ![c] = "failed"]
        /\ error' = [error EXCEPT ![c] = m.resp.err]
        /\ UNCHANGED <<server, handler, base, currentPage, allItems, totalCount, result,
                       requests, reqLog>>

\* one fetch at a time
Next ==
    \/ \E criteria \in BaseCriteria : Invoke(1, criteria)
    \/ ServerRespond(1)
    \/ ServerNoTotal(1)
    \/ ServerMalformed(1)
    \/ ServerFail(1)
    \/ Resume(1)
    \/ Throw(1)

Spec == Init /\ [][Next]_vars

\* base criteria of the concurrent fetches
ConcurrentBaseCriteria ==
    { FilterParams,
      FilterParams \o <<Param(KeyPageSize, NumberToString(200))>>,
      <<Param(KeyCurrentPage, NumberToString(12))>> \o FilterParams,
      <<Param(KeyPageSize, NumberToString(50)),
        Param(KeyCurrentPage, NumberToString(3))>> \o FilterParams }

\* one fetch, over the base criteria of ConcurrentBaseCriteria
NextLive ==
    \/ \E criteria \in ConcurrentBaseCriteria : Invoke(1, criteria)
    \/ ServerRespond(1)
    \/ ServerNoTotal(1)
    \/ ServerMalformed(1)
    \/ ServerFail(1)
    \/ Resume(1)
    \/ Throw(1)

\* the platform answers every request and the event loop runs every
\* continuation that is ready
Fairness ==
    /\ WF_vars(ServerRespond(1) \/ ServerNoTotal(1) \/ ServerMalformed(1)
                  \/ ServerFail(1))
    /\ WF_vars(Resume(1))
    /\ WF_vars(Throw(1))

SpecLive == Init /\ [][NextLive]_vars /\ Fairness

\* several tool invocations fetch at the same time
NextConcurrent ==
    \E c \in Calls :
        \/ \E criteria \in ConcurrentBaseCriteria : Invoke(c, criteria)
        \/ ServerRespond(c)
        \/ ServerFail(c)
        \/ Resume(c)
        \/ Throw(c)

\* no run issues as many requests as the cap of SendRequest allows
CapNotReached == \A c \in Calls : Len(reqLog[c]) < MaxRequests

SpecConcurrent == Init /\ [][NextConcurrent]_vars

\* ------------------------------------------------------------ tool layer
\* values a caller may pass for a string argument ("" counts as not supplied)
FilterValues ==
    { <<"a">>, <<"a", "&", "b">>, <<"5", "0", "%">>, <<"a", " ", "b">> }

OptString == {<<>>} \cup FilterValues
OptDay == {<<>>, <<"2023-01-01">>}
OptNumber == {<<>>, <<0>>, <<42>>}
OptBoolean == {<<>>, <<TRUE>>, <<FALSE>>}
DateExpressions == {"today", "2023-01-01", "2023-01-01 to 2023-01-31", "someday"}

SearchTools ==
    {"get_order_by_increment_id", "search_orders", "search_customers",
     "advanced_product_search", "get_tax_classes", "search_coupons",
     "search_url_rewrites", "get_order_count"}

\* the tools that collect every page of /orders with fetchAllPages
FetchTools == {"get_revenue", "get_product_sales", "get_revenue_by_country"}

\* the tools that read an entity and write it back with the caller's changes
UpdateTools == {"update_customer", "update_cms_block", "update_cms_page"}

\* the entity on the platform an update tool works on
EntityOf(t) ==
    CASE t = "update_customer" -> "customer"
      [] t = "update_cms_block" -> "block"
      [] t = "update_cms_page" -> "page"

\* the tools that take a date_range expression
AnalyticsTools == FetchTools \cup {"get_order_count"}

Tools ==
    SearchTools \cup FetchTools
        \cup {"get_order_by_id", "update_product_attribute", "get_shipping_methods"}

\* the arguments the host may pass to a tool, defaults filled in
ToolArgs(t) ==
    CASE t = "get_order_by_id" -> [order_id : {7}]
      [] t = "get_order_by_increment_id" -> [increment_id : FilterValues]
      [] t = "search_orders" ->
            [status : OptString, customer_email : {<<>>, <<"a", "&", "b">>},
             customer_id : OptNumber, date_from : OptDay, date_to : OptDay,
             grand_total_min : {<<>>, <<5>>}, grand_total_max : {<<>>, <<9>>},
             page_size : {20}, current_page : {1, 2},
             sort_field : {<<"created_at">>}, sort_direction : {<<"DESC">>}]
      [] t = "search_customers" ->
            [email : OptString, firstname : {<<>>, <<"a", " ", "b">>},
             lastname : {<<>>, <<"5", "0", "%">>},
             group_id : {<<>>, <<3>>}, website_id : {<<>>, <<0>>},
             created_at_from : OptString \cup OptDay, created_at_to : OptDay,
             page_size : {20}, current_page : {1}]
      [] t = "advanced_product_search" ->
            [field : {<<"name">>, <<"a", "&", "b">>}, value : FilterValues,
             condition_type : {<<"eq">>, <<"like">>},
             page_size : {10}, current_page : {1, 3},
             sort_field : {<<"entity_id">>}, sort_direction : {<<"DESC">>, <<"ASC">>}]
      [] t = "get_tax_classes" -> [tax_class_type : OptString]
      [] t = "search_coupons" ->
            [code : OptString, rule_id : {<<>>, <<3>>}, is_active : OptBoolean,
             page_size : {50}, current_page : {1}]
      [] t = "search_url_rewrites" ->
            [request_path : OptString, target_path : {<<>>, <<"a", " ", "b">>},
             entity_type : {<<>>, <<"product">>}, store_id : OptNumber,
             page_size : {50}, current_page : {1}]
      [] t = "get_revenue" -> [date_range : DateExpressions, status : OptString]
      [] t = "get_order_count" -> [date_range : DateExpressions, status : OptString]
      [] t = "get_product_sales" ->
            [date_range : DateExpressions, status : {<<>>, <<"a", "&", "b">>},
             country : {<<>>, <<"N", "L">>}]
      [] t = "get_revenue_by_country" ->
            [date_range : DateExpressions, status : {<<>>, <<"a", "&", "b">>},
             country : {<<"N", "L">>}, include_tax : {TRUE}]
      [] t = "update_product_attribute" ->
            [sku : {<<"s", "k", "u">>, <<"A">>},
             attribute_code : {"name", "color"}, value : {<<"v">>}]
      [] t = "get_customer_ordered_products_by_email" ->
            [email : {<<"a", "@", "b">>, <<"a", "+", "c", "@", "b">>}]
      [] t = "update_customer" ->
            [customer_id : {1}, email : {<<>>},
             firstname : {<<>>, <<"f1">>}, lastname : {<<>>, <<"l1">>},
             group_id : {<<>>, <<2>>}]
      [] t = "update_cms_block" ->
            [block_id : {1}, identifier : {<<>>}, title : {<<>>, <<"t1">>},
             content : {<<>>, <<"c1">>}, is_active : {<<>>, <<FALSE>>}]
      [] t = "update_cms_page" ->
            [page_id : {1}, identifier : {<<>>, <<"i1">>}, title : {<<>>, <<"t1">>},
             content : {<<>>}, is_active : {<<>>, <<FALSE>>}]
      [] t = "get_shipping_methods" -> {<<>>}

\* the search criteria a search tool builds
SearchCriteriaOf(t, a) ==
    CASE t = "get_order_by_increment_id" -> get_order_by_increment_id(a)
      [] t = "search_orders" -> search_orders(a)
      [] t = "search_customers" -> search_customers(a)
      [] t = "advanced_product_search" -> advanced_product_search(a)
      [] t = "get_tax_classes" -> get_tax_classes(a)
      [] t = "search_coupons" -> search_coupons(a)
      [] t = "search_url_rewrites" -> search_url_rewrites(a)
      [] t = "get_revenue" -> get_revenue(a)
      [] t = "get_order_count" -> get_order_count(a)
      [] t = "get_product_sales" -> get_product_sales(a)
      [] t = "get_revenue_by_country" -> get_revenue_by_country(a)
      [] t = "get_customer_ordered_products_by_email" -> orderSearchCriteria(a)

\* one callMagentoApi(endpoint, method): query is the text after '?'
ApiCall(method, endpoint, query) ==
    [method |-> method, endpoint |-> endpoint, query |-> query]

\* one callMagentoApi(endpoint, 'PUT', data)
ApiPut(endpoint, data) ==
    [method |-> "PUT", endpoint |-> endpoint, query |-> <<>>, body |-> data]

\* the PUT of an update tool (customers.js 230, analytics.js 691, 874)
UpdateCall(t, a, stored) ==
    CASE t = "update_customer" -> ApiPut("/customers/{id}", update_customer(a, stored))
      [] t = "update_cms_block" -> ApiPut("/cmsBlock/{id}", update_cms_block(a, stored))
      [] t = "update_cms_page" -> ApiPut("/cmsPage/{id}", update_cms_page(a, stored))

\* `/products/${sku}` (products.js 148, 186)
ProductEndpoint(sku) == <<"/products/">> \o sku

\* the custom attributes of the products on the platform
CustomAttributes == {"color"}

\* updateData (products.js 163-183): a custom attribute of the product goes
\* into custom_attributes, any other attribute is set on the product itself
UpdateData(a) ==
    IF a.attribute_code \in CustomAttributes
    THEN [product |-> [custom_attributes |->
                          <<[attribute_code |-> a.attribute_code, value |-> a.value]>>]]
    ELSE [product |-> [f \in {a.attribute_code} |-> a.value]]

\* the call a handler makes first
FirstCall(t, a) ==
    CASE t = "get_order_by_id" -> ApiCall("GET", "/orders/{id}", <<>>)
      [] t = "get_order_by_increment_id" -> ApiCall("GET", "/orders", SearchCriteriaOf(t, a))
      [] t = "search_orders" -> ApiCall("GET", "/orders", SearchCriteriaOf(t, a))
      [] t = "search_customers" ->
            ApiCall("GET", "/customers/search", SearchCriteriaOf(t, a))
      [] t = "advanced_product_search" ->
            ApiCall("GET", "/products", SearchCriteriaOf(t, a))
      [] t = "get_tax_classes" ->
            ApiCall("GET", "/taxClasses/search", SearchCriteriaOf(t, a))
      [] t = "search_coupons" ->
            ApiCall("GET", "/coupons/search", SearchCriteriaOf(t, a))
      [] t = "search_url_rewrites" ->
            ApiCall("GET", "/url-rewrite", SearchCriteriaOf(t, a))
      [] t = "get_order_count" -> ApiCall("GET", "/orders", SearchCriteriaOf(t, a))
      [] t = "update_product_attribute" ->
            ApiCall("GET", ProductEndpoint(a.sku), <<>>)
      [] t = "get_customer_ordered_products_by_email" ->
            ApiCall("GET", "/customers/search", customerSearchCriteria(a))
      [] t = "update_customer" -> ApiCall("GET", "/customers/{id}", <<>>)
      [] t = "update_cms_block" -> ApiCall("GET", "/cmsBlock/{id}", <<>>)
      [] t = "update_cms_page" -> ApiCall("GET", "/cmsPage/{id}", <<>>)
      [] t = "get_shipping_methods" -> ApiCall("GET", "/shipping-methods", <<>>)

\* the text before the error message in a handler's catch block
ErrorPrefix(t) ==
    CASE t = "get_order_by_id" -> "Error fetching order: "
      [] t = "get_order_by_increment_id" -> "Error fetching order: "
      [] t = "search_orders" -> "Error searching orders: "
      [] t = "search_customers" -> "Error searching customers: "
      [] t = "advanced_product_search" -> "Error performing advanced search: "
      [] t = "get_tax_classes" -> "Error fetching tax classes: "
      [] t = "search_coupons" -> "Error searching coupons: "
      [] t = "search_url_rewrites" -> "Error searching URL rewrites: "
      [] t = "get_revenue" -> "Error fetching revenue: "
      [] t = "get_order_count" -> "Error fetching order count: "
      [] t = "get_product_sales" -> "Error fetching product sales: "
      [] t = "get_revenue_by_country" -> "Error fetching revenue by country: "
      [] t = "update_product_attribute" -> "Error updating product attribute: "
      [] t = "get_customer_ordered_products_by_email" ->
            "Error fetching customer ordered products: "
      [] t = "update_customer" -> "Error updating customer: "
      [] t = "update_cms_block" -> "Error updating CMS block: "
      [] t = "update_cms_page" -> "Error updating CMS page: "
      [] t = "get_shipping_methods" -> "Error fetching shipping methods: "

\* return { content: [{ type: "text", text }], isError: true }
ErrorResult(text) == [isError |-> TRUE, text |-> text]

\* return { content: [{ type: "text", text }] }
OkResult(text) == [isError |-> FALSE, text |-> text]

\* the handler is waiting for the answer to its latest call
InFlight(c) == Len(answers[c]) < Len(sent[c])

\* variant: the handler starts its request with the start and end of an
\* expression it could not parse, and reports the expression afterwards
ToolInvokeRequestFirst(c, t, a) ==
    /\ hpc[c] = "idle"
    /\ tool' = [tool EXCEPT ![c] = t]
    /\ args' = [args EXCEPT ![c] = a]
    /\ IF t \in FetchTools
       THEN /\ hpc' = [hpc EXCEPT ![c] = "fetching"]
            /\ UNCHANGED <<sent, toolResult>>
       ELSE /\ sent' = [sent EXCEPT ![c] = <<FirstCall(t, a)>>]
            /\ IF t \in AnalyticsTools /\ ~parseDateExpression(a.date_range).ok
               THEN /\ hpc' = [hpc EXCEPT ![c] = "returned"]
                    /\ toolResult' = [toolResult EXCEPT ![c] =
                           ErrorResult(<<ErrorPrefix(t), "Invalid date expression">>)]
               ELSE /\ hpc' = [hpc EXCEPT ![c] = "calling"]
                    /\ UNCHANGED toolResult
    /\ UNCHANGED <<server, fetch, locals, answers>>

\* the host invokes tool t with arguments a: the handler runs up to its
\* first await, or to its catch block when parseDateExpression throws
ToolInvoke(c, t, a) ==
    /\ hpc[c] = "idle"
    /\ tool' = [tool EXCEPT ![c] = t]
    /\ args' = [args EXCEPT ![c] = a]
    /\ IF t \in AnalyticsTools /\ ~parseDateExpression(a.date_range).ok
       THEN /\ hpc' = [hpc EXCEPT ![c] = "returned"]
            /\ toolResult' = [toolResult EXCEPT ![c] =
                   ErrorResult(<<ErrorPrefix(t), "Invalid date expression">>)]
            /\ UNCHANGED sent
       ELSE IF t \in FetchTools
       THEN /\ hpc' = [hpc EXCEPT ![c] = "fetching"]
            /\ UNCHANGED <<sent, toolResult>>
       ELSE /\ hpc' = [hpc EXCEPT ![c] = "calling"]
            /\ sent' = [sent EXCEPT ![c] = <<FirstCall(t, a)>>]
            /\ UNCHANGED toolResult
    /\ UNCHANGED <<server, fetch, locals, answers>>

\* a fetch tool hands its criteria to fetchAllPages (analytics.js 37, 193, 334)
ToolFetch(c) ==
    /\ hpc[c] = "fetching"
    /\ Invoke(c, QueryParams(SearchCriteriaOf(tool[c], args[c])))

\* the platform answers a handler's own call
ApiRespond(c) ==
    /\ InFlight(c)
    /\ answers' = [answers EXCEPT ![c] = Append(@, "ok")]
    /\ UNCHANGED <<server, fetch, locals, tool, args, hpc, sent, toolResult>>

\* a handler's own call fails
ApiFail(c) ==
    \E e \in Errors :
        /\ InFlight(c)
        /\ answers' = [answers EXCEPT ![c] = Append(@, e)]
        /\ UNCHANGED <<server, fetch, locals, tool, args, hpc, sent, toolResult>>

\* the handler returns r
Return(c, r) ==
    /\ hpc' = [hpc EXCEPT ![c] = "returned"]
    /\ toolResult' = [toolResult EXCEPT ![c] = r]
    /\ UNCHANGED sent

\* the handler makes one more call and waits for it
CallNext(c, call) ==
    /\ sent' = [sent EXCEPT ![c] = Append(@, call)]
    /\ UNCHANGED <<hpc, toolResult>>

\* the platform serves the call of an update tool: a GET returns the entity
\* as it is stored now, a PUT saves its body
EntityRespond(c) ==
    /\ InFlight(c)
    /\ tool[c] \in UpdateTools
    /\ LET call == sent[c][Len(sent[c])]
           kind == EntityOf(tool[c])
       IN  IF call.method = "GET"
           THEN /\ existing' = [existing EXCEPT ![c] = entity[kind]]
                /\ UNCHANGED entity
           ELSE /\ entity' = [entity EXCEPT ![kind] = SaveEntity(@, call.body)]
                /\ UNCHANGED existing
    /\ answers' = [answers EXCEPT ![c] = Append(@, "ok")]
    /\ UNCHANGED <<serverCount, serverTotal, fetch, lookups, arrival, tool, args,
                   hpc, sent, toolResult>>

\* the handler goes on to await fetchAllPages
StartFetch(c) ==
    /\ hpc' = [hpc EXCEPT ![c] = "fetching"]
    /\ UNCHANGED <<sent, toolResult>>

\* the platform answers the customer search with no items, or the GET of a
\* product with an empty body
ApiRespondEmpty(c) ==
    /\ InFlight(c)
    /\ tool[c] \in {"get_customer_ordered_products_by_email", "update_product_attribute"}
    /\ Len(sent[c]) = 1
    /\ answers' = [answers EXCEPT ![c] = Append(@, "empty")]
    /\ UNCHANGED <<server, fetch, locals, tool, args, hpc, sent, toolResult>>

\* variant: the attribute is written whatever the existence check said
ResumeUpdateProductAttributeUnchecked(c) ==
    LET n == Len(answers[c])
        ok == answers[c][n] = "ok"
    IN  IF n = 1
        THEN CallNext(c, ApiPut(ProductEndpoint(args[c].sku), UpdateData(args[c])))
        ELSE IF ok THEN Return(c, OkResult(<<"Successfully updated">>))
             ELSE Return(c, ErrorResult(<<ErrorPrefix(tool[c]), answers[c][n]>>))

\* update_product_attribute after an answer (products.js 148-205): the GET is
\* followed by .catch(() => null), so a failed GET and an empty body both
\* give the 'not found' result; only a product leads to the PUT
ResumeUpdateProductAttribute(c) ==
    LET n == Len(answers[c])
        ok == answers[c][n] = "ok"
    IN  IF n = 1
        THEN IF ok
             THEN CallNext(c, ApiPut(ProductEndpoint(args[c].sku), UpdateData(args[c])))
             ELSE Return(c, ErrorResult(<<"Product with SKU '", args[c].sku,
                                          "' not found">>))
        ELSE IF ok THEN Return(c, OkResult(<<"Successfully updated">>))
             ELSE Return(c, ErrorResult(<<ErrorPrefix(tool[c]), answers[c][n]>>))

\* variant: when both calls fail the error of the fallback is reported
ResumeShippingMethodsLastError(c) ==
    LET n == Len(answers[c])
        ok == answers[c][n] = "ok"
    IN  IF n = 1
        THEN IF ok THEN Return(c, OkResult(<<"methods">>))
             ELSE CallNext(c, ApiCall("GET", "/store/storeConfigs", <<>>))
        ELSE IF ok THEN Return(c, OkResult(<<"Store configurations">>))
             ELSE Return(c, ErrorResult(<<ErrorPrefix(tool[c]), answers[c][2]>>))

\* get_shipping_methods after an answer (part_005 128-145): the catch of the
\* first call tries /store/storeConfigs, and the catch of that call reports
\* the error of the first
ResumeShippingMethods(c) ==
    LET n == Len(answers[c])
        ok == answers[c][n] = "ok"
    IN  IF n = 1
        THEN IF ok THEN Return(c, OkResult(<<"methods">>))
             ELSE CallNext(c, ApiCall("GET", "/store/storeConfigs", <<>>))
        ELSE IF ok THEN Return(c, OkResult(<<"Store configurations">>))
             ELSE Return(c, ErrorResult(<<ErrorPrefix(tool[c]), answers[c][1]>>))

\* the handler's continuation after the answer to its latest call: the code
\* after the await, or the catch block
ToolResume(c) ==
    /\ hpc[c] = "calling"
    /\ ~InFlight(c)
    /\ LET t == tool[c]
           n == Len(answers[c])
           ok == answers[c][n] = "ok"
       IN  IF t = "update_product_attribute" THEN ResumeUpdateProductAttribute(c)
           ELSE IF t = "get_shipping_methods" THEN ResumeShippingMethods(c)
           ELSE IF t \in UpdateTools
           THEN IF n = 1
                THEN IF ok THEN CallNext(c, UpdateCall(t, args[c], existing[c]))
                     ELSE Return(c, ErrorResult(<<ErrorPrefix(t), answers[c][n]>>))
                ELSE IF ok THEN Return(c, OkResult(<<"updated successfully">>))
                     ELSE Return(c, ErrorResult(<<ErrorPrefix(t), answers[c][n]>>))
           ELSE IF t = "get_customer_ordered_products_by_email"
           THEN IF ok THEN StartFetch(c)
                ELSE IF answers[c][n] = "empty"
                THEN Return(c, OkResult(<<"No customer found with email: ">>))
                ELSE Return(c, ErrorResult(<<ErrorPrefix(t), answers[c][n]>>))
           ELSE IF ok THEN Return(c, OkResult(<<"data">>))
                ELSE Return(c, ErrorResult(<<ErrorPrefix(t), answers[c][n]>>))
    /\ UNCHANGED <<server, fetch, locals, tool, args, answers>>

\* variant: a failed fetch is reported as an empty revenue
ToolReturnSwallow(c) ==
    /\ hpc[c] = "fetching"
    /\ tool[c] \in FetchTools
    /\ pc[c] \in {"done", "failed"}
    /\ hpc' = [hpc EXCEPT ![c] = "returned"]
    /\ toolResult' = [toolResult EXCEPT ![c] = OkResult(<<"revenue">>)]
    /\ UNCHANGED <<server, fetch, locals, tool, args, sent, answers>>

\* fetchAllPages has settled: the fetch tool computes its result, or its catch
\* block reports the failure (analytics.js 37-98, 193-299, 334-406)
ToolReturn(c) ==
    /\ hpc[c] = "fetching"
    /\ tool[c] \in FetchTools
    /\ pc[c] \in {"done", "failed"}
    /\ hpc' = [hpc EXCEPT ![c] = "returned"]
    /\ toolResult' = [toolResult EXCEPT ![c] =
           IF pc[c] = "done" THEN OkResult(<<"revenue">>)
           ELSE ErrorResult(<<ErrorPrefix(tool[c]), error[c]>>)]
    /\ UNCHANGED <<server, fetch, locals, tool, args, sent, answers>>

\* fetchAllPages has settled in get_customer_ordered_products_by_email
\* (analytics.js 447-482): the catch block reports a failure, no orders end
\* the tool, and otherwise one lookup per ordered SKU is started, all of them
\* before the handler waits for any
StartLookups(c) ==
    /\ hpc[c] = "fetching"
    /\ tool[c] = "get_customer_ordered_products_by_email"
    /\ pc[c] \in {"done", "failed"}
    /\ IF pc[c] = "failed"
       THEN /\ hpc' = [hpc EXCEPT ![c] = "returned"]
            /\ toolResult' = [toolResult EXCEPT ![c] =
                   ErrorResult(<<ErrorPrefix(tool[c]), error[c]>>)]
            /\ UNCHANGED lookups
       ELSE IF Len(result[c]) = 0
       THEN /\ hpc' = [hpc EXCEPT ![c] = "returned"]
            /\ toolResult' = [toolResult EXCEPT ![c] =
                   OkResult(<<"No orders found for customer with email: ">>)]
            /\ UNCHANGED lookups
       ELSE LET productSkus == ProductSkus(result[c]) IN
            /\ hpc' = [hpc EXCEPT ![c] = "lookups"]
            /\ lookups' = [lookups EXCEPT ![c] =
                   [sku \in {productSkus[i] : i \in 1..Len(productSkus)} |-> "pending"]]
            /\ UNCHANGED toolResult
    /\ UNCHANGED <<server, fetch, arrival, existing, tool, args, sent, answers>>

\* the platform answers the lookup of one SKU with its product
LookupRespond(c, sku) ==
    /\ hpc[c] = "lookups"
    /\ sku \in DOMAIN lookups[c]
    /\ lookups[c][sku] = "pending"
    /\ lookups' = [lookups EXCEPT ![c][sku] = "ok"]
    /\ arrival' = [arrival EXCEPT ![c] = Append(@, sku)]
    /\ UNCHANGED <<server, fetch, existing, tool, args, hpc, sent, answers, toolResult>>

\* the lookup of one SKU fails
LookupFail(c, sku) ==
    \E e \in Errors :
        /\ hpc[c] = "lookups"
        /\ sku \in DOMAIN lookups[c]
        /\ lookups[c][sku] = "pending"
        /\ lookups' = [lookups EXCEPT ![c][sku] = e]
        /\ arrival' = [arrival EXCEPT ![c] = Append(@, sku)]
        /\ UNCHANGED <<server, fetch, existing, tool, args, hpc, sent, answers,
                       toolResult>>

\* variant: the details are collected as the lookups settle and attached to
\* the SKUs by position
FinishLookupsByArrival(c) ==
    /\ hpc[c] = "lookups"
    /\ \A sku \in DOMAIN lookups[c] : lookups[c][sku] # "pending"
    /\ LET productSkus == ProductSkus(result[c])
           settled(i) == arrival[c][i]
           productDetails ==
               [i \in 1..Len(productSkus) |->
                   IF lookups[c][settled(i)] = "ok"
                   THEN [sku |-> productSkus[i], name |-> Product(settled(i)).name]
                   ELSE [sku |-> productSkus[i], error |-> lookups[c][settled(i)]]]
       IN  toolResult' = [toolResult EXCEPT ![c] =
               OrderedProducts(result[c], ProductMap(productDetails))]
    /\ hpc' = [hpc EXCEPT ![c] = "returned"]
    /\ UNCHANGED <<server, fetch, locals, tool, args, sent, answers>>

\* every lookup has settled (analytics.js 476-516): Promise.all hands over the
\* details in the order of the SKUs; a lookup that failed has become
\* { sku, error } in its own catch
FinishLookups(c) ==
    /\ hpc[c] = "lookups"
    /\ \A sku \in DOMAIN lookups[c] : lookups[c][sku] # "pending"
    /\ LET productSkus == ProductSkus(result[c])
           productDetails ==
               [i \in 1..Len(productSkus) |->
                   IF lookups[c][productSkus[i]] = "ok"
                   THEN formatProduct(Product(productSkus[i]))
                   ELSE [sku |-> productSkus[i], error |-> lookups[c][productSkus[i]]]]
       IN  toolResult' = [toolResult EXCEPT ![c] =
               OrderedProducts(result[c], ProductMap(productDetails))]
    /\ hpc' = [hpc EXCEPT ![c] = "returned"]
    /\ UNCHANGED <<server, fetch, locals, tool, args, sent, answers>>

\* the orders of the customer on the platform: none, one, fewer than a page,
\* more than a page
OrderCounts == {0, 1, 7, pageSize + 1}

InitLookups ==
    /\ Init
    /\ serverCount \in OrderCounts
    /\ serverTotal = serverCount

\* one invocation of get_customer_ordered_products_by_email
NextLookups ==
    \/ \E a \in ToolArgs("get_customer_ordered_products_by_email") :
           ToolInvoke(1, "get_customer_ordered_products_by_email", a)
    \/ ApiRespond(1)
    \/ ApiRespondEmpty(1)
    \/ ApiFail(1)
    \/ ToolResume(1)
    \/ ToolFetch(1)
    \/ ServerRespond(1)
    \/ ServerFail(1)
    \/ Resume(1)
    \/ Throw(1)
    \/ StartLookups(1)
    \/ \E sku \in Skus : LookupRespond(1, sku)
    \/ \E sku \in Skus : LookupFail(1, sku)
    \/ FinishLookups(1)

SpecLookups == InitLookups /\ [][NextLookups]_vars

\* collections the tools are run against
ToolCollectionSizes == {7, pageSize + 7}

InitTools ==
    /\ Init
    /\ serverCount \in ToolCollectionSizes
    /\ serverTotal = serverCount

\* one tool invocation
NextTools ==
    \/ \E t \in Tools : \E a \in ToolArgs(t) : ToolInvoke(1, t, a)
    \/ ToolFetch(1)
    \/ ApiRespond(1)
    \/ ApiRespondEmpty(1)
    \/ ApiFail(1)
    \/ ToolResume(1)
    \/ ToolReturn(1)
    \/ ServerRespond(1)
    \/ ServerFail(1)
    \/ Resume(1)
    \/ Throw(1)

SpecTools == InitTools /\ [][NextTools]_vars

\* arguments of the concurrent get_revenue invocations
ConcurrentRevenueArgs ==
    [date_range : {"today", "2023-01-01 to 2023-01-31"},
     status : {<<>>, <<"a", "&", "b">>}]

\* several get_revenue invocations run at the same time
NextToolsConcurrent ==
    \E c \in Calls :
        \/ \E a \in ConcurrentRevenueArgs : ToolInvoke(c, "get_revenue", a)
        \/ ToolFetch(c)
        \/ ServerRespond(c)
        \/ ServerFail(c)
        \/ Resume(c)
        \/ Throw(c)
        \/ ToolReturn(c)

SpecToolsConcurrent == InitTools /\ [][NextToolsConcurrent]_vars

\* update tools invoked at the same time, on the same entities
NextUpdates ==
    \E c \in Calls :
        \/ \E t \in UpdateTools : \E a \in ToolArgs(t) : ToolInvoke(c, t, a)
        \/ EntityRespond(c)
        \/ ApiFail(c)
        \/ ToolResume(c)

\* the update tools fetch no collection
InitUpdates ==
    /\ Init
    /\ serverCount = 0
    /\ serverTotal = 0

SpecUpdates == InitUpdates /\ [][NextUpdates]_vars

\* the platform answers a request with a page that does not fit the others:
\* a full page whatever the page number, a different total_count, or the
\* first page again
ServerShifting(c) ==
    \E r \in requests, kind \in ShiftingKinds :
        /\ r.call = c
        /\ requests' = requests \ {r}
        /\ responses' = responses \cup
              {[call |-> c, kind |-> kind, resp |-> PlatformResponse(kind, r.criteria)]}
        /\ UNCHANGED <<server, handler, pc, base, currentPage, allItems, totalCount,
                       result, error, reqLog, outcomes>>

\* collections the shifting platform starts from
ShiftingSizes == {50, pageSize, 2 * pageSize, 2 * pageSize + 50}

InitShifting ==
    /\ Init
    /\ serverCount \in ShiftingSizes
    /\ serverTotal \in {serverCount, MaxReported}

\* one fetch against a platform whose answers shift
NextShifting ==
    \/ \E criteria \in ConcurrentBaseCriteria : Invoke(1, criteria)
    \/ ServerRespond(1)
    \/ ServerShifting(1)
    \/ Resume(1)

SpecShifting == InitShifting /\ [][NextShifting]_vars


\* -------------------------------------------------------------- properties
\* page number a request asks for
RequestedPage(criteria) == ParseInt(ParamValue(criteria, KeyCurrentPage))

\* page size a request asks for
RequestedSize(criteria) == ParseInt(ParamValue(criteria, KeyPageSize))

CountKey(criteria, k) ==
    Cardinality({i \in 1..Len(criteria) : criteria[i].key = k})

NoPaginationKeys(criteria) ==
    /\ ~Includes(criteria, KeyPageSize)
    /\ ~Includes(criteria, KeyCurrentPage)

\* the platform reports the true size of its collection
ConsistentServer == serverTotal = serverCount

Started(c) == pc[c] # "idle"

CeilDiv(a, b) == (a + b - 1) \div b

Max(a, b) == IF a >= b THEN a ELSE b

Last(s) == s[Len(s)]

\* messages of call c on their way to or from the platform
Outstanding(c) ==
    Cardinality({r \in requests : r.call = c})
    + Cardinality({m \in responses : m.call = c})

\* every response call c has received was a well-formed page with its
\* total_count
AllOk(c) == \A i \in 1..Len(outcomes[c]) : outcomes[c][i] = "ok"

\* C1: against a platform that holds a fixed ordered collection, reports its
\* true size as total_count and serves pages of 100, a fetch whose base
\* criteria have no pagination key returns exactly the collection: every
\* item once, in the platform's order within and across pages.
C1_ReturnsWholeCollection ==
    \A c \in Calls :
        (/\ pc[c] = "done"
         /\ ConsistentServer
         /\ AllOk(c)
         /\ NoPaginationKeys(base[c]))
            => result[c] = Collection(serverCount)

C1_Witness ==
    /\ pc[1] = "done"
    /\ ConsistentServer
    /\ NoPaginationKeys(base[1])
    /\ serverCount = 2 * pageSize + 50
    /\ Len(reqLog[1]) = 3
    /\ Len(result[1]) = serverCount

\* number of requests a collection of count items takes at pages of 100
ExpectedRequests(count) == Max(1, CeilDiv(count, pageSize))

\* C2: with page size 100 and a platform reporting the true total T, a fetch
\* never issues more than max(1, ceil(T/100)) requests, has issued exactly
\* that many when it returns, and returns as soon as that many pages have
\* arrived.
C2_RequestCount ==
    \A c \in Calls :
        (/\ Started(c)
         /\ ConsistentServer
         /\ AllOk(c)
         /\ RequestedSize(reqLog[c][1]) = pageSize)
            => /\ Len(reqLog[c]) <= ExpectedRequests(serverCount)
               /\ pc[c] = "done" => Len(reqLog[c]) = ExpectedRequests(serverCount)
               /\ Len(outcomes[c]) = ExpectedRequests(serverCount)
                      => pc[c] = "done"

C2_Witness ==
    /\ pc[1] = "done"
    /\ ConsistentServer
    /\ RequestedSize(reqLog[1][1]) = pageSize
    /\ serverCount = 250
    /\ Len(reqLog[1]) = 3
    /\ Len(result[1]) = 250

\* C3: when a page request fails, on page 1 or later, the fetch fails with
\* that same error and delivers nothing: the items of the earlier pages are
\* not returned.
C3_FailureIsAllOrNothing ==
    \A c \in Calls :
        (outcomes[c] # <<>> /\ Last(outcomes[c]) \in Errors)
            => /\ pc[c] = "failed"
               /\ error[c] = Last(outcomes[c])
               /\ result[c] = None

C3_Witness ==
    /\ pc[1] = "failed"
    /\ Len(outcomes[1]) = 2
    /\ outcomes[1][1] = "ok"
    /\ error[1] = "E2"
    /\ Len(allItems[1]) = pageSize
    /\ result[1] = None

\* C4: when the base criteria specify a page size P below 100 and the
\* platform serves pages of P items, a fetch over a collection of more than
\* P items still returns the whole collection.
C4_SmallPageSizeFetchesAll ==
    \A c \in Calls :
        (/\ pc[c] = "done"
         /\ ConsistentServer
         /\ AllOk(c)
         /\ Includes(base[c], KeyPageSize)
         /\ RequestedSize(base[c]) < pageSize
         /\ serverCount > RequestedSize(base[c]))
            => result[c] = Collection(serverCount)

\* two requests differ at most in the value of currentPage
SameButCurrentPage(a, b) ==
    /\ Len(a) = Len(b)
    /\ \A i \in 1..Len(a) :
          /\ a[i].key = b[i].key
          /\ a[i].key # KeyCurrentPage => a[i].val = b[i].val

\* C5: when the base criteria carry a pageSize, every request of the fetch
\* carries that one pageSize with the caller's value and no second pageSize
\* key, and consecutive requests differ only in the value of currentPage.
C5_CallerPageSizeKept ==
    \A c \in Calls :
        (Started(c) /\ Includes(base[c], KeyPageSize))
            => \A k \in 1..Len(reqLog[c]) :
                  /\ CountKey(reqLog[c][k], KeyPageSize) = 1
                  /\ ParamValue(reqLog[c][k], KeyPageSize)
                        = ParamValue(base[c], KeyPageSize)
                  /\ k > 1 => SameButCurrentPage(reqLog[c][k - 1], reqLog[c][k])

C5_Witness ==
    /\ Includes(base[1], KeyPageSize)
    /\ RequestedSize(base[1]) = 200
    /\ Len(reqLog[1]) = 2
    /\ RequestedSize(reqLog[1][2]) = 200
    /\ RequestedPage(reqLog[1][2]) = 2

C7_NoRetry ==
    \A c \in Calls :
        /\ \A i, j \in 1..Len(reqLog[c]) :
              i # j => RequestedPage(reqLog[c][i]) # RequestedPage(reqLog[c][j])
        /\ \A i \in 1..Len(outcomes[c]) :
              outcomes[c][i] \in Errors
                 => /\ i = Len(outcomes[c])
                    /\ Len(reqLog[c]) = i
                    /\ Outstanding(c) = 0

C7_Witness ==
    /\ pc[1] = "failed"
    /\ Len(reqLog[1]) = 2
    /\ outcomes[1] = <<"ok", "E1">>
    /\ Outstanding(1) = 0

\* C8: the k-th request of a fetch carries searchCriteria[currentPage]
\* exactly once, with value k, whether the key was absent from the base
\* criteria or present with some page number; the first request asks for
\* page 1.
C8_PageNumberOfKthRequest ==
    \A c \in Calls :
        \A k \in 1..Len(reqLog[c]) :
            /\ CountKey(reqLog[c][k], KeyCurrentPage) = 1
            /\ ParamValue(reqLog[c][k], KeyCurrentPage) = NumberToString(k)

C8_Witness ==
    /\ Includes(base[1], KeyCurrentPage)
    /\ RequestedPage(base[1]) = 12
    /\ Len(reqLog[1]) = 3
    /\ RequestedPage(reqLog[1][3]) = 3

\* the base criteria had no currentPage and the key was inserted
C8_WitnessInserted ==
    /\ Started(1)
    /\ ~Includes(base[1], KeyCurrentPage)
    /\ Len(reqLog[1]) = 3
    /\ RequestedPage(reqLog[1][3]) = 3

\* C9: the page fetches of one call are strictly sequential: at most one
\* request of the call is outstanding, one is outstanding exactly while the
\* call waits, and request k+1 exists only when the responses of requests
\* 1..k have been received and none of them stopped the fetch.
C9_Sequential ==
    \A c \in Calls :
        /\ Outstanding(c) <= 1
        /\ Outstanding(c) = 1 <=> pc[c] = "await"
        /\ Len(reqLog[c]) = Len(outcomes[c]) + Outstanding(c)
        /\ Len(reqLog[c]) > 1
              => \A k \in 1..(Len(reqLog[c]) - 1) :
                    /\ outcomes[c][k] \notin Errors
                    /\ outcomes[c][k] \in {"ok", "nototal"}
                          => Len(ServerPage(serverCount, reqLog[c][k])) >= pageSize

C9_Witness ==
    /\ pc[1] = "await"
    /\ Len(reqLog[1]) = 3
    /\ Len(outcomes[1]) = 2
    /\ Outstanding(1) = 1

\* the state of a fetch that runs alone with base criteria b against the
\* platform and has received the responses outs, one after the other
RECURSIVE RunAlone(_, _)
RunAlone(b, outs) ==
    IF outs = <<>>
    THEN [pc |-> "await", currentPage |-> 1, totalCount |-> 0,
          allItems |-> <<>>, result |-> None, error |-> None]
    ELSE LET before == RunAlone(b, SubSeq(outs, 1, Len(outs) - 1))
             resp == PlatformResponse(Last(outs),
                                      BuildPageCriteria(b, before.currentPage))
             all == IF resp.shape = "list" THEN before.allItems \o resp.items
                    ELSE before.allItems
             total == IF before.currentPage > 1 THEN before.totalCount
                      ELSE IF resp.has_total THEN resp.total_count
                      ELSE 0
             short == \/ resp.shape = "absent"
                      \/ resp.shape \in {"list", "string"}
                            /\ Len(resp.items) < pageSize
         IN  IF before.pc # "await" THEN before
             ELSE IF Last(outs) \in Errors
             THEN [before EXCEPT !.pc = "failed", !.error = Last(outs)]
             ELSE IF total <= Len(all) \/ short
             THEN [before EXCEPT !.pc = "done", !.totalCount = total,
                                 !.allItems = all, !.result = all]
             ELSE [before EXCEPT !.currentPage = @ + 1, !.totalCount = total,
                                 !.allItems = all]

\* C10: concurrent fetches are independent: under every interleaving of
\* their requests and responses, the page counter, captured total_count,
\* accumulator and outcome of each call are those of the same call running
\* alone and receiving the same responses.
C10_CallsIndependent ==
    \A c \in Calls :
        Started(c)
            => LET alone == RunAlone(base[c], outcomes[c])
               IN  /\ pc[c] = alone.pc
                   /\ currentPage[c] = alone.currentPage
                   /\ totalCount[c] = alone.totalCount
                   /\ allItems[c] = alone.allItems
                   /\ result[c] = alone.result
                   /\ error[c] = alone.error

\* two fetches with different base criteria, interleaved: the second one
\* started and received a page while the first was between its pages
C10_Witness ==
    /\ pc[1] = "done"
    /\ pc[2] = "await"
    /\ base[1] # base[2]
    /\ Len(reqLog[1]) = 3
    /\ Len(outcomes[2]) = 1
    /\ Len(allItems[1]) # Len(allItems[2])
    /\ Len(allItems[2]) > 0

\* call c receives a page response in this step (the await resolves)
ReceivesPage(c) ==
    /\ Len(outcomes'[c]) = Len(outcomes[c]) + 1
    /\ Last(outcomes'[c]) \notin Errors

\* the body call c receives in a step where ReceivesPage(c) holds
ReceivedBody(c) == PlatformResponse(Last(outcomes'[c]), Last(reqLog[c]))

\* call c issues a further request in this step
IssuesRequest(c) == Len(reqLog'[c]) = Len(reqLog[c]) + 1

\* C11: a page response whose items field is absent, or present but not a
\* list, is taken as "no items for this page": receiving it leaves the
\* accumulator as it was and does not make the fetch fail.
C11_MalformedItemsIgnored ==
    [][\A c \in Calls :
          (ReceivesPage(c) /\ Last(outcomes'[c]) \in MalformedShapes)
             => /\ allItems'[c] = allItems[c]
                /\ pc'[c] \in {"await", "done"}
                /\ error'[c] = None]_vars

C11_Witness ==
    /\ outcomes[1] = <<"ok", "object">>
    /\ Len(allItems[1]) = pageSize
    /\ pc[1] = "await"
    /\ error[1] = None

\* C12: a first page without total_count is not an error; the total is
\* taken as 0, so the fetch returns that page's items after that single
\* request, however many they are.
C12_MissingTotalIsZero ==
    \A c \in Calls :
        (outcomes[c] # <<>> /\ outcomes[c][1] = "nototal")
            => /\ pc[c] = "done"
               /\ totalCount[c] = 0
               /\ Len(reqLog[c]) = 1
               /\ result[c] = ServerPage(serverCount, reqLog[c][1])

C12_Witness ==
    /\ outcomes[1] = <<"nototal">>
    /\ serverCount = 2 * pageSize + 50
    /\ pc[1] = "done"
    /\ Len(result[1]) = pageSize

\* ---------------------------------------------------------------- builders
\* the criteria the tool of call c has built, as parameters
HasBuilt(c) ==
    \/ tool[c] \in SearchTools /\ sent[c] # <<>>
    \/ tool[c] \in FetchTools /\ pc[c] # "idle"

BuiltCriteria(c) ==
    IF tool[c] \in SearchTools THEN QueryParams(sent[c][1].query) ELSE base[c]

FilterParts == {"field", "value", "condition_type"}

\* the key names of the filter groups 0..MaxFilterGroups
FilterKeyTable ==
    [g \in 0..MaxFilterGroups |-> [part \in FilterParts |-> FilterGroupKey(g, part)]]

IsFilterKey(k) ==
    \E g \in 0..MaxFilterGroups, part \in FilterParts : FilterKeyTable[g][part] = k

OtherKeys == {KeyPageSize, KeyCurrentPage, KeySortField, KeySortDirection}

\* names a caller's own text can spell when it is cut at '&' and '='
CallerKeys ==
    UNION { { Concat(SubSeq(v, i, j)) : i \in 1..Len(v), j \in 0..Len(v) } :
              v \in FilterValues }

\* the parameters of criteria that open a filter, in emission order
FieldParams(criteria) ==
    LET IsField(p) == \E g \in 0..MaxFilterGroups : FilterKeyTable[g]["field"] = p.key
    IN  SelectSeq(criteria, IsField)

\* C13: in every search criteria string a tool builds, whatever optional
\* filters are supplied, the k-th filter emitted is filter 0 of group k-1:
\* the group indices are exactly 0..n-1 in emission order, every group holds
\* one field, one value and one condition_type, and no key names another
\* group or another filter index.
C13_FilterGroupsContiguous ==
    \A c \in Calls :
        HasBuilt(c) =>
            LET criteria == BuiltCriteria(c)
                fields == FieldParams(criteria)
                n == Len(fields)
            IN  /\ \A i \in 1..Len(criteria) :
                       \/ IsFilterKey(criteria[i].key)
                       \/ criteria[i].key \in OtherKeys
                       \/ criteria[i].key \in CallerKeys
                /\ \A k \in 1..n : fields[k].key = FilterKeyTable[k - 1]["field"]
                /\ \A g \in 0..MaxFilterGroups : \A part \in FilterParts :
                       CountKey(criteria, FilterKeyTable[g][part])
                           = (IF g < n THEN 1 ELSE 0)

\* search_orders has built criteria with the first optional filter left out
\* and at least three later ones supplied
C13_Witness ==
    \E c \in Calls :
        /\ tool[c] = "search_orders"
        /\ HasBuilt(c)
        /\ ~Truthy(args[c].status)
        /\ Defined(args[c].customer_id)
        /\ Truthy(args[c].date_to)
        /\ Len(FieldParams(BuiltCriteria(c))) >= 3


\* a boolean filter value as the tools write it: 1 or 0
BooleanText(opt) == IF Defined(opt) /\ opt[1] THEN <<"1">> ELSE <<"0">>

\* one filter a caller asked for: on tells whether the argument was supplied
Asked(on, field, value, condition_type) ==
    [on |-> on, field |-> field, value |-> value, condition_type |-> condition_type]

\* the filters the arguments a of tool t ask for, in the order of the schema,
\* with the values the platform is meant to read
ExpectedFilters(t, a) ==
    LET IsOn(f) == f.on
        Percent(x) == <<"%">> \o x \o <<"%">>
        all ==
          CASE t = "get_order_by_increment_id" ->
                 << Asked(TRUE, <<"increment_id">>, a.increment_id, "eq") >>
            [] t = "search_orders" ->
                 << Asked(Truthy(a.status), <<"status">>, a.status, "eq"),
                    Asked(Truthy(a.customer_email), <<"customer_email">>,
                          a.customer_email, "eq"),
                    Asked(Defined(a.customer_id), <<"customer_id">>,
                          NumberText(a.customer_id), "eq"),
                    Asked(Truthy(a.date_from), <<"created_at">>,
                          a.date_from \o <<" ", "00", ":", "00", ":", "00">>, "gteq"),
                    Asked(Truthy(a.date_to), <<"created_at">>,
                          a.date_to \o <<" ", "23", ":", "59", ":", "59">>, "lteq"),
                    Asked(Defined(a.grand_total_min), <<"grand_total">>,
                          NumberText(a.grand_total_min), "gteq"),
                    Asked(Defined(a.grand_total_max), <<"grand_total">>,
                          NumberText(a.grand_total_max), "lteq") >>
            [] t = "search_customers" ->
                 << Asked(Truthy(a.email), <<"email">>, Percent(a.email), "like"),
                    Asked(Truthy(a.firstname), <<"firstname">>,
                          Percent(a.firstname), "like"),
                    Asked(Truthy(a.lastname), <<"lastname">>,
                          Percent(a.lastname), "like"),
                    Asked(Defined(a.group_id), <<"group_id">>,
                          NumberText(a.group_id), "eq"),
                    Asked(Defined(a.website_id), <<"website_id">>,
                          NumberText(a.website_id), "eq"),
                    Asked(Truthy(a.created_at_from), <<"created_at">>,
                          a.created_at_from, "gteq"),
                    Asked(Truthy(a.created_at_to), <<"created_at">>,
                          a.created_at_to, "lteq") >>
            [] t = "advanced_product_search" ->
                 << Asked(TRUE, a.field, a.value, Concat(a.condition_type)) >>
            [] t = "get_tax_classes" ->
                 << Asked(Truthy(a.tax_class_type), <<"class_type">>,
                          a.tax_class_type, "eq") >>
            [] t = "search_coupons" ->
                 << Asked(Truthy(a.code), <<"code">>, Percent(a.code), "like"),
                    Asked(Defined(a.rule_id), <<"rule_id">>,
                          NumberText(a.rule_id), "eq"),
                    Asked(Defined(a.is_active), <<"is_active">>,
                          BooleanText(a.is_active), "eq") >>
            [] t = "search_url_rewrites" ->
                 << Asked(Truthy(a.request_path), <<"request_path">>,
                          Percent(a.request_path), "like"),
                    Asked(Truthy(a.target_path), <<"target_path">>,
                          Percent(a.target_path), "like"),
                    Asked(Truthy(a.entity_type), <<"entity_type">>,
                          a.entity_type, "eq"),
                    Asked(Defined(a.store_id), <<"store_id">>,
                          NumberText(a.store_id), "eq") >>
            [] t \in AnalyticsTools ->
                 LET dateRange == parseDateExpression(a.date_range) IN
                 << Asked(TRUE, <<"created_at">>,
                          formatDateForMagento(dateRange.startDate), "gteq"),
                    Asked(TRUE, <<"created_at">>,
                          formatDateForMagento(dateRange.endDate), "lteq"),
                    Asked(Truthy(a.status), <<"status">>, a.status, "eq") >>
    IN  SelectSeq(all, IsOn)

\* the parameters besides filters that tool t writes
OtherParamCount(t) ==
    CASE t = "search_orders" -> 4
      [] t = "search_customers" -> 2
      [] t = "advanced_product_search" -> 4
      [] t = "get_tax_classes" -> 1
      [] t = "search_coupons" -> 2
      [] t = "search_url_rewrites" -> 2
      [] t = "get_order_count" -> 2
      [] OTHER -> 0

\* the built criteria of call c as the platform reads them: values decoded
BuiltDecoded(c) ==
    LET ps == BuiltCriteria(c) IN
    [i \in 1..Len(ps) |-> Param(ps[i].key, DecodeValue(ps[i].val))]

\* the decoded criteria carry exactly the filters asked for
RecoversFilters(criteria, expected, others) ==
    /\ Len(criteria) = 3 * Len(expected) + others
    /\ \A k \in 1..Len(expected) :
           /\ CountKey(criteria, FilterKeyTable[k - 1]["field"]) = 1
           /\ CountKey(criteria, FilterKeyTable[k - 1]["value"]) = 1
           /\ CountKey(criteria, FilterKeyTable[k - 1]["condition_type"]) = 1
           /\ ParamValue(criteria, FilterKeyTable[k - 1]["field"]) = expected[k].field
           /\ ParamValue(criteria, FilterKeyTable[k - 1]["value"]) = expected[k].value
           /\ ParamValue(criteria, FilterKeyTable[k - 1]["condition_type"])
                  = <<expected[k].condition_type>>

\* the tool of call c writes a filter for every filter argument it was given
\* (search_coupons writes none for is_active)
WritesEveryFilter(c) ==
    tool[c] = "search_coupons" => ~Defined(args[c].is_active)

\* C14: for every search criteria string a tool builds, decoding it gives
\* back, filter by filter, exactly the value the caller supplied (also when
\* it contains '&', '%' or a space) and no key/value pair besides those the
\* tool wrote.
C14_ValuesRoundTrip ==
    \A c \in Calls :
        (HasBuilt(c) /\ WritesEveryFilter(c)) =>
            RecoversFilters(BuiltDecoded(c), ExpectedFilters(tool[c], args[c]),
                            OtherParamCount(tool[c]))

\* the same, leaving out the creation dates of search_customers
EncodedValuesRoundTrip ==
    \A c \in Calls :
        (/\ HasBuilt(c)
         /\ tool[c] = "search_customers" =>
                /\ args[c].created_at_from \in OptDay
                /\ args[c].created_at_to \in OptDay
         /\ WritesEveryFilter(c))
        => RecoversFilters(BuiltDecoded(c), ExpectedFilters(tool[c], args[c]),
                           OtherParamCount(tool[c]))


\* criteria holds searchCriteria[pageSize] and searchCriteria[currentPage],
\* each once
PaginatedOnce(criteria) ==
    /\ CountKey(criteria, KeyPageSize) = 1
    /\ CountKey(criteria, KeyCurrentPage) = 1

\* C15: every search criteria string sent to the platform, by a tool's own
\* callMagentoApi call or by fetchAllPages, holds searchCriteria[pageSize]
\* and searchCriteria[currentPage], each exactly once.
C15_PaginationKeysOnce ==
    \A c \in Calls :
        /\ \A i \in 1..Len(sent[c]) :
               sent[c][i].query # <<>> => PaginatedOnce(QueryParams(sent[c][i].query))
        /\ \A i \in 1..Len(reqLog[c]) : PaginatedOnce(reqLog[c][i])

\* the same for the strings fetchAllPages completes and for the tools that
\* write both keys themselves
PaginationKeysOnceWhereWritten ==
    \A c \in Calls :
        /\ \A i \in 1..Len(sent[c]) :
               tool[c] \in {"search_orders", "search_customers",
                            "advanced_product_search"}
                   => PaginatedOnce(QueryParams(sent[c][i].query))
        /\ \A i \in 1..Len(reqLog[c]) : PaginatedOnce(reqLog[c][i])


\* the requests two calls have both issued are the same, page for page
SameRequests(c, d) ==
    \A k \in 1..Min(Len(reqLog[c]), Len(reqLog[d])) : reqLog[c][k] = reqLog[d][k]

ParsingThrew(c) ==
    tool[c] \in AnalyticsTools /\ ~parseDateExpression(args[c].date_range).ok

\* some call the handler of call c made has failed
SomeCallFailed(c) ==
    \/ pc[c] = "failed"
    \/ \E i \in 1..Len(answers[c]) : answers[c][i] \in Errors

\* update_product_attribute was answered with no product
NoProduct(c) == tool[c] = "update_product_attribute" /\ answers[c] = <<"empty">>

\* the call the handler of call c made last has failed
LastCallFailed(c) ==
    \/ pc[c] = "failed"
    \/ answers[c] # <<>> /\ Last(answers[c]) \in Errors

\* C17 as stated: a handler returns isError = true with a text message
\* whenever any call it made failed or parameter parsing threw, and a
\* result without isError only when no call it made failed.
C17_AnyFailureIsError ==
    \A c \in Calls :
        hpc[c] = "returned" =>
            /\ toolResult[c].text # <<>>
            /\ toolResult[c].isError <=> (ParsingThrew(c) \/ SomeCallFailed(c))

\* C17: no failure escapes a handler: the handler ends by returning a
\* result, which has a text message, and which has isError = true exactly
\* when parameter parsing threw, the last call the handler made failed
\* (callMagentoApi or fetchAllPages), or update_product_attribute found no
\* product; a failed call the handler recovers from by a later successful
\* call, as get_shipping_methods does with its fallback, does not make the
\* result an error.
C17_FailuresReported ==
    \A c \in Calls :
        /\ hpc[c] \in {"idle", "calling", "fetching", "returned"}
        /\ hpc[c] = "returned" =>
               /\ toolResult[c].text # <<>>
               /\ toolResult[c].isError <=>
                      (ParsingThrew(c) \/ LastCallFailed(c) \/ NoProduct(c))

\* get_revenue has returned an error after the second page of its fetch failed
C17_Witness ==
    \E c \in Calls :
        /\ hpc[c] = "returned"
        /\ tool[c] = "get_revenue"
        /\ Len(reqLog[c]) = 2
        /\ pc[c] = "failed"
        /\ toolResult[c].isError


\* number of items of a page: those of the list, none when the items field
\* is absent or not a list
PageItemCount(resp) == IF resp.shape = "list" THEN Len(resp.items) ELSE 0

\* the response had no items
HadNoItems(resp) == resp.shape # "list"

\* C18: after each successful page response a further request is issued if
\* and only if none of the stop conditions holds (accumulated item count >=
\* captured total_count; the response had no items; the page's item count
\* is below the page size), and that request asks for the next page.
C18_ContinuesIffNoStopCondition ==
    [][\A c \in Calls :
          ReceivesPage(c)
             => /\ IssuesRequest(c)
                      <=> ~(\/ Len(allItems'[c]) >= totalCount'[c]
                            \/ HadNoItems(ReceivedBody(c))
                            \/ PageItemCount(ReceivedBody(c)) < pageSize)
                /\ IssuesRequest(c)
                      => RequestedPage(Last(reqLog'[c]))
                            = RequestedPage(Last(reqLog[c])) + 1]_vars

\* C19: after a page whose items are absent or present but not a list, no
\* further request is issued and the fetch returns the items accumulated so
\* far, whatever total_count was captured.
C19_MalformedPageEndsFetch ==
    \A c \in Calls :
        \A k \in 1..Len(outcomes[c]) :
            outcomes[c][k] \in MalformedShapes
                => /\ k = Len(outcomes[c])
                   /\ Len(reqLog[c]) = k
                   /\ pc[c] = "done"
                   /\ result[c] = allItems[c]

\* call c has received a failure
HasFailure(c) == \E i \in 1..Len(outcomes[c]) : outcomes[c][i] \in Errors

\* C20: a fetch whose requests all succeed, against a platform that comes to
\* return a page of fewer than 100 items (or without items) or whose pages
\* add up to the total reported on page 1, eventually returns, after a
\* bounded number of requests.
C20_EventuallyReturns ==
    /\ \A c \in Calls : Started(c) ~> (pc[c] = "done" \/ HasFailure(c))
    /\ [](\A c \in Calls : Len(reqLog[c]) < MaxRequests)

C20_Witness ==
    /\ pc[1] = "done"
    /\ ~HasFailure(1)
    /\ serverTotal = MaxReported
    /\ serverCount = 2 * pageSize
    /\ Len(reqLog[1]) = 3
    /\ Len(result[1]) = serverCount

\* ------------------------------------------------------- shifting platform
\* the body of the i-th response call c received
BodyOf(c, i) == PlatformResponse(outcomes[c][i], reqLog[c][i])

\* every page call c received so far was a full page of pageSize items
AllFull(c) ==
    \A i \in 1..Len(outcomes[c]) :
        /\ outcomes[c][i] \in {"ok", "full", "total0", "totalmax", "stale"}
        /\ PageItemCount(BodyOf(c, i)) = pageSize

\* C21: fetchAllPages has no bound on the number of pages: as long as every
\* page received was a full page of 100 items and the total_count captured
\* on page 1 is above the number of items accumulated, the fetch has not
\* returned and has asked for pages 1, 2, 3, ... in order, one more request
\* than it has answers.
C21_NoPageBound ==
    \A c \in Calls :
        (/\ Started(c)
         /\ AllFull(c)
         /\ outcomes[c] # <<>> => totalCount[c] > Len(allItems[c]))
        => /\ pc[c] = "await"
           /\ Len(reqLog[c]) = Len(outcomes[c]) + 1
           /\ \A k \in 1..Len(reqLog[c]) : RequestedPage(reqLog[c][k]) = k

\* a fetch that received only full pages has issued as many requests as the
\* model allows and is still waiting
C21_Witness ==
    /\ pc[1] = "await"
    /\ AllFull(1)
    /\ Len(outcomes[1]) = MaxRequests - 1
    /\ Len(reqLog[1]) = MaxRequests
    /\ totalCount[1] > Len(allItems[1])

\* the total_count of the first response call c received
FirstTotal(c) ==
    IF BodyOf(c, 1).has_total THEN BodyOf(c, 1).total_count ELSE 0

\* C22: once the first page is received, the total used by the loop is the
\* total_count of that first response, whatever total_count later pages
\* report; and the fetch has stopped exactly when that first total is
\* reached by the accumulated count or the last page received was short.
C22_FirstTotalDecides ==
    \A c \in Calls :
        outcomes[c] # <<>> =>
            LET last == BodyOf(c, Len(outcomes[c]))
                stop == \/ FirstTotal(c) <= Len(allItems[c])
                        \/ PageItemCount(last) < pageSize
            IN  /\ totalCount[c] = FirstTotal(c)
                /\ pc[c] = "done" <=> stop

\* the second page reported total_count 0 while the first had reported 250,
\* and the fetch went on to a third page
C22_Witness ==
    /\ outcomes[1] = <<"ok", "total0">>
    /\ totalCount[1] = 2 * pageSize + 50
    /\ pc[1] = "await"
    /\ Len(reqLog[1]) = 3

\* the items of a response body that are a list
ListItems(resp) == IF resp.ok /\ resp.shape = "list" THEN resp.items ELSE <<>>

\* the list-shaped items of the first n pages call c received, in fetch order
RECURSIVE ReceivedItems(_, _)
ReceivedItems(c, n) ==
    IF n = 0 THEN <<>>
    ELSE ReceivedItems(c, n - 1) \o ListItems(BodyOf(c, n))

\* C23: at every point of a fetch the accumulator is the concatenation, in
\* fetch order, of the list-shaped items of all pages received so far, so
\* nothing is reordered, removed or deduplicated, also when pages overlap.
C23_AccumulatorIsConcatenation ==
    \A c \in Calls :
        Started(c) => allItems[c] = ReceivedItems(c, Len(outcomes[c]))

\* the platform served the first page twice: its items are in the accumulator
\* twice
C23_Witness ==
    /\ outcomes[1] = <<"ok", "stale">>
    /\ Len(allItems[1]) = 2 * pageSize
    /\ allItems[1][1] = allItems[1][pageSize + 1]

\* ---------------------------------------------------------- filter counts
\* the filter groups in the criteria the tool of call c has built
EmittedGroups(c) == Len(FieldParams(BuiltCriteria(c)))

\* C24: in every search tool the number of filter groups in the query
\* string equals the number of filter parameters of the schema the caller
\* supplied: each supplied filter produces exactly one group.
C24_OneGroupPerSuppliedFilter ==
    \A c \in Calls :
        (tool[c] \in SearchTools /\ HasBuilt(c))
        => EmittedGroups(c) = Len(ExpectedFilters(tool[c], args[c]))

\* the same, leaving out is_active of search_coupons
OneGroupPerWrittenFilter ==
    \A c \in Calls :
        (/\ tool[c] \in SearchTools
         /\ HasBuilt(c)
         /\ WritesEveryFilter(c))
        => EmittedGroups(c) = Len(ExpectedFilters(tool[c], args[c]))

\* -------------------------------------------------------------- date range
\* the decoded value of the one parameter named k in criteria
OnlyValue(criteria, k) == DecodeValue(ParamValue(criteria, k))

\* C25: the criteria get_revenue obtains from buildDateRangeFilter hold two
\* filter groups on the same field: group 0 with condition gteq and the
\* start date, group 1 with condition lteq and the end date, each bound
\* being filter 0 of its own group, and no other group unless a status
\* filter was added.
C25_DateRangeIsTwoGroups ==
    \A c \in Calls :
        (tool[c] = "get_revenue" /\ pc[c] # "idle") =>
            LET dateRange == parseDateExpression(args[c].date_range)
                key == FilterKeyTable
            IN  /\ \A g \in {0, 1} : \A part \in FilterParts :
                       CountKey(base[c], key[g][part]) = 1
                /\ OnlyValue(base[c], key[0]["field"]) = <<"created_at">>
                /\ OnlyValue(base[c], key[1]["field"]) = <<"created_at">>
                /\ OnlyValue(base[c], key[0]["condition_type"]) = <<"gteq">>
                /\ OnlyValue(base[c], key[1]["condition_type"]) = <<"lteq">>
                /\ OnlyValue(base[c], key[0]["value"])
                       = <<dateRange.startDate.day, " ", "00", ":", "00", ":", "00">>
                /\ OnlyValue(base[c], key[1]["value"])
                       = <<dateRange.endDate.day, " ", "23", ":", "59", ":", "59">>
                /\ Len(base[c]) = IF Truthy(args[c].status) THEN 9 ELSE 6

\* get_revenue has built the criteria of a range of two different days, with
\* no status filter
C25_Witness ==
    \E c \in Calls :
        /\ tool[c] = "get_revenue"
        /\ pc[c] # "idle"
        /\ args[c].date_range = "2023-01-01 to 2023-01-31"
        /\ ~Truthy(args[c].status)
        /\ Len(base[c]) = 6


\* C26: in get_revenue, get_order_count, get_product_sales and
\* get_revenue_by_country, a date_range that parseDateExpression cannot parse
\* makes the handler return an isError result without any request: neither
\* a call of its own nor a page request of fetchAllPages has been issued.
C26_UnparsedDateNoRequest ==
    \A c \in Calls :
        (hpc[c] # "idle" /\ tool[c] \in AnalyticsTools
            /\ ~parseDateExpression(args[c].date_range).ok) =>
            /\ hpc[c] = "returned"
            /\ toolResult[c].isError
            /\ sent[c] = <<>>
            /\ pc[c] = "idle"
            /\ reqLog[c] = <<>>
            /\ \A r \in requests : r.call # c

\* get_order_count has been invoked with an expression that is no date
C26_Witness ==
    \E c \in Calls :
        /\ hpc[c] = "returned"
        /\ tool[c] = "get_order_count"
        /\ args[c].date_range = "someday"
        /\ Truthy(args[c].status)
        /\ toolResult[c].isError


\* the SKUs ordered in the orders of a list
OrderedSkus(orders) ==
    UNION { {OrderItems(orders[i])[j] : j \in 1..Len(OrderItems(orders[i]))} :
            i \in 1..Len(orders) }

\* what the lookup of a SKU that ended as outcome is meant to attach to it
DetailsOf(sku, outcome) ==
    IF outcome = "ok" THEN [sku |-> sku, name |-> Product(sku).name]
    ELSE [sku |-> sku, error |-> outcome]

\* C27: in get_customer_ordered_products_by_email the lookups start only when
\* fetchAllPages has resolved with every order, one per ordered SKU and all
\* at once; and once they have all settled, in whatever order, the tool
\* returns a result that is no error, in which each item carries the details
\* of its own SKU: the product when that lookup succeeded, its own error when
\* it failed.
C27_LookupsIndependent ==
    \A c \in Calls :
        tool[c] = "get_customer_ordered_products_by_email" =>
            /\ (hpc[c] = "lookups" \/ DOMAIN lookups[c] # {}) =>
                  /\ pc[c] = "done"
                  /\ Len(result[c]) = serverCount
                  /\ \A r \in requests : r.call # c
                  /\ DOMAIN lookups[c] = OrderedSkus(result[c])
            /\ (hpc[c] = "lookups" /\ arrival[c] = <<>>) =>
                  \A sku \in DOMAIN lookups[c] : lookups[c][sku] = "pending"
            /\ (hpc[c] = "returned" /\ DOMAIN lookups[c] # {}) =>
                  /\ ~toolResult[c].isError
                  /\ Len(toolResult[c].orders) = Len(result[c])
                  /\ \A i \in 1..Len(result[c]) :
                        LET items == toolResult[c].orders[i].items IN
                        /\ Len(items) = Len(OrderItems(result[c][i]))
                        /\ \A j \in 1..Len(items) :
                              /\ items[j].sku = OrderItems(result[c][i])[j]
                              /\ items[j].product_details =
                                     DetailsOf(items[j].sku, lookups[c][items[j].sku])

\* the tool has returned the orders of two pages after its three lookups
\* settled last SKU first, one of them failed and one succeeded
C27_Witness ==
    \E c \in Calls :
        /\ tool[c] = "get_customer_ordered_products_by_email"
        /\ hpc[c] = "returned"
        /\ Len(reqLog[c]) = 2
        /\ arrival[c] = <<"C", "B", "A">>
        /\ lookups[c]["A"] = "E1"
        /\ lookups[c]["B"] = "ok"
        /\ ~toolResult[c].isError


\* the argument of tool t that sets field f of its entity (None: no argument)
ArgumentOf(t, f) ==
    CASE f = "active" -> "is_active"
      [] f = "website_id" -> None
      [] OTHER -> f

\* the caller of call c supplied field f
Supplied(c, f) ==
    /\ ArgumentOf(tool[c], f) # None
    /\ args[c][ArgumentOf(tool[c], f)] # <<>>

\* the platform serves the PUT of call c in this step
PutServed(c) ==
    /\ tool[c] \in UpdateTools
    /\ Len(sent[c]) = 2
    /\ Len(answers[c]) = 1
    /\ Len(answers'[c]) = 2
    /\ answers'[c][2] = "ok"

\* call c issues its PUT in this step
PutIssued(c) ==
    /\ tool[c] \in UpdateTools
    /\ Len(sent[c]) = 1
    /\ Len(sent'[c]) = 2

\* C28: when the platform serves the PUT of update_customer, update_cms_block
\* or update_cms_page, every field the caller did not supply keeps the value
\* stored at that moment, also when another update of the entity was served
\* since the tool's GET; and the PUT is issued only after the GET succeeded.
C28_UnsuppliedFieldsKept ==
    [][\A c \in Calls :
          /\ PutServed(c) =>
                \A f \in DOMAIN entity[EntityOf(tool[c])] :
                    ~Supplied(c, f) =>
                        entity'[EntityOf(tool[c])][f] = entity[EntityOf(tool[c])][f]
          /\ PutIssued(c) => answers[c] = <<"ok">>]_vars

\* the same when no other update of the entity was served since the GET
UnsuppliedFieldsKeptWhenAlone ==
    [][\A c \in Calls :
          /\ (PutServed(c) /\ existing[c] = entity[EntityOf(tool[c])]) =>
                \A f \in DOMAIN entity[EntityOf(tool[c])] :
                    ~Supplied(c, f) =>
                        entity'[EntityOf(tool[c])][f] = entity[EntityOf(tool[c])][f]
          /\ PutIssued(c) => answers[c] = <<"ok">>]_vars


\* C29: update_product_attribute issues at most one PUT, for the SKU of its
\* GET and only after that GET was answered with a product; when the GET
\* fails, with whatever error, or brings no product, no PUT is issued and the
\* tool returns the isError 'not found' message.
C29_PutOnlyAfterProductFound ==
    \A c \in Calls :
        tool[c] = "update_product_attribute" =>
            /\ Len(sent[c]) <= 2
            /\ sent[c][1].method = "GET"
            /\ sent[c][1].endpoint = ProductEndpoint(args[c].sku)
            /\ Len(sent[c]) = 2 =>
                  /\ answers[c][1] = "ok"
                  /\ sent[c][2].method = "PUT"
                  /\ sent[c][2].endpoint = sent[c][1].endpoint
            /\ (hpc[c] = "returned" /\ answers[c][1] # "ok") =>
                  /\ Len(sent[c]) = 1
                  /\ toolResult[c] =
                         ErrorResult(<<"Product with SKU '", args[c].sku, "' not found">>)

\* the GET of update_product_attribute has failed with an error that does not
\* say the product is missing, and the tool has returned
C29_Witness ==
    \E c \in Calls :
        /\ tool[c] = "update_product_attribute"
        /\ hpc[c] = "returned"
        /\ answers[c] = <<"E2">>
        /\ toolResult[c].isError

\* C30: get_shipping_methods calls /store/storeConfigs only as its second
\* call and only after /shipping-methods failed; when the fallback succeeds
\* the result is no error, and when both fail the isError message carries
\* the error of the first call.
C30_FallbackOnlyAfterFailure ==
    \A c \in Calls :
        tool[c] = "get_shipping_methods" =>
            /\ Len(sent[c]) <= 2
            /\ sent[c][1].endpoint = "/shipping-methods"
            /\ Len(sent[c]) = 2 =>
                  /\ answers[c][1] \in Errors
                  /\ sent[c][2].endpoint = "/store/storeConfigs"
            /\ (Len(answers[c]) >= 1 /\ answers[c][1] = "ok") => Len(sent[c]) = 1
            /\ hpc[c] = "returned" =>
                  /\ answers[c][Len(answers[c])] = "ok" => ~toolResult[c].isError
                  /\ answers[c][Len(answers[c])] \in Errors =>
                        /\ Len(answers[c]) = 2
                        /\ toolResult[c] =
                               ErrorResult(<<ErrorPrefix(tool[c]), answers[c][1]>>)

\* both calls of get_shipping_methods have failed, with different errors
C30_Witness ==
    \E c \in Calls :
        /\ tool[c] = "get_shipping_methods"
        /\ hpc[c] = "returned"
        /\ answers[c] = <<"E1", "E2">>
        /\ toolResult[c].isError

====
